---- MODULE Spec2Model ----
(***************************************************************************)
(* Datalog rule inliner (z3/lib/dl_mk_rule_inliner.cpp): the planner, the  *)
(* bulk, eager and linear inlining stages and mk_rule_inliner::operator(). *)
(*                                                                         *)
(* Terms are integers: a variable is its index (>= 0), a constant is a     *)
(* negative number.  An atom is [pred, args].  A rule is                   *)
(*   [head, pos, neg, interp, org]                                         *)
(* with the tail kept in the rule manager's order: uninterpreted positive, *)
(* uninterpreted negative, interpreted.  An interpreted tail element is    *)
(* [t, S, q]: the constraint "t is one of S", q telling whether the        *)
(* formula contains a quantifier.  org is the accounting parent: the index *)
(* of the source rule the rule descends from.                              *)
(*                                                                         *)
(* A value that a definition uses several times is handed to a second      *)
(* definition as a parameter (F(x) == FWith(x, G(x))).                     *)
(***************************************************************************)
EXTENDS Integers, Sequences, FiniteSets, TLC

\* ------------------------------------------------------------------------
\* Bounds of the model
\* ------------------------------------------------------------------------
\* number of constants of the interpretation domain
NumConsts == 2
\* longest source rule set
MaxRules == 5

\* the predicate declarations; a declaration's id (func_decl::get_id) is its
\* position in this table
Decls == <<"P", "Q", "R", "S", "Out", "N">>

Preds == DOMAIN Decls

DeclOf(name) == CHOOSE p \in Preds : Decls[p] = name

\* func_decl::get_arity: N is nullary, the other declarations are unary
get_arity(p) == IF Decls[p] = "N" THEN 0 ELSE 1

Consts == {0 - k : k \in 1..NumConsts}
cA == 0 - 1
cB == 0 - 2

\* ------------------------------------------------------------------------
\* Terms, atoms, rules
\* ------------------------------------------------------------------------
IsVar(t) == t >= 0

Range(s) == {s[k] : k \in DOMAIN s}

SetMax(X) == CHOOSE m \in X : \A x \in X : x <= m

SetMin(X) == CHOOSE m \in X : \A x \in X : m <= x

Max2(a, b) == IF a > b THEN a ELSE b

\* s without its element at position k
SeqFilterOut(s, k) ==
    [j \in 1..(Len(s) - 1) |-> IF j < k THEN s[j] ELSE s[j + 1]]

\* the elements of s at the positions I, in order
Pick(s, I) ==
    [n \in 1..Cardinality(I) |-> s[CHOOSE k \in I : Cardinality({x \in I : x < k}) = n - 1]]

AtomVars(a) == {t \in Range(a.args) : IsVar(t)}

AtomsVars(as) == UNION {AtomVars(as[k]) : k \in DOMAIN as}

InterpVars(cs) == {cs[k].t : k \in DOMAIN cs} \cap Nat

RuleVars(r) ==
    AtomVars(r.head) \cup AtomsVars(r.pos) \cup AtomsVars(r.neg) \cup InterpVars(r.interp)

MaxOr0(X) == IF X = {} THEN 0 ELSE SetMax(X)

\* var_counter::get_max_var
get_max_var(r) == MaxOr0(RuleVars(r))

get_decl(r) == r.head.pred

get_positive_tail_size(r) == Len(r.pos)

get_uninterpreted_tail_size(r) == Len(r.pos) + Len(r.neg)

get_tail_size(r) == Len(r.pos) + Len(r.neg) + Len(r.interp)

UninterpretedTail(r) == r.pos \o r.neg

\* the i-th uninterpreted tail atom, 0-based as in the code
get_tail(r, i) == UninterpretedTail(r)[i + 1]

\* rule_manager::mk
mk(head, pos, neg, interp, org) ==
    [head |-> head, pos |-> pos, neg |-> neg, interp |-> interp, org |-> org]

NormTerm(t, used) == IF IsVar(t) THEN Cardinality({v \in used : v < t}) ELSE t

NormAtom(a, used) == [pred |-> a.pred, args |-> [k \in DOMAIN a.args |-> NormTerm(a.args[k], used)]]

NormWith(r, used) ==
    IF used = 0..(Cardinality(used) - 1) THEN r
    ELSE mk(NormAtom(r.head, used),
            [k \in DOMAIN r.pos |-> NormAtom(r.pos[k], used)],
            [k \in DOMAIN r.neg |-> NormAtom(r.neg[k], used)],
            [k \in DOMAIN r.interp |->
                [t |-> NormTerm(r.interp[k].t, used), S |-> r.interp[k].S, q |-> r.interp[k].q]],
            r.org)

\* rule::norm_vars: the variables renumbered to 0..k, their order kept
norm_vars(r) == NormWith(r, RuleVars(r))

\* ------------------------------------------------------------------------
\* rule_unifier
\* ------------------------------------------------------------------------
\* A unifier is [ready, subst, deltas]: m_ready, m_subst and m_deltas.
RECURSIVE Walk(_, _)
Walk(sub, t) ==
    IF IsVar(t) /\ t \in DOMAIN sub /\ sub[t] # t THEN Walk(sub, sub[t]) ELSE t

UnifyWalked(u, a, b) ==
    IF ~u.ready \/ a = b THEN u
    ELSE IF IsVar(a) /\ IsVar(b)
         THEN [u EXCEPT !.subst[Max2(a, b)] = IF a > b THEN b ELSE a]
    ELSE IF IsVar(b) THEN [u EXCEPT !.subst[b] = a]
    ELSE IF IsVar(a) THEN [u EXCEPT !.subst[a] = b]
    ELSE [u EXCEPT !.ready = FALSE]

\* most general unifier of two flat terms under the bindings of u
UnifyTerms(u, t, s) == UnifyWalked(u, Walk(u.subst, t), Walk(u.subst, s))

RECURSIVE UnifyArgs(_, _, _, _)
UnifyArgs(u, ts, ss, k) ==
    IF k > Len(ts) THEN u
    ELSE UnifyArgs(UnifyTerms(u, ts[k], ss[k]), ts, ss, k + 1)

Shift(t, d) == IF IsVar(t) THEN t + d ELSE t

\* the unifier of atom a (offset 0) with atom b (offset 1), the variables of
\* offset 1 being var_cnt above those of offset 0
m_unif(a, b, var_cnt) ==
    IF a.pred # b.pred \/ Len(a.args) # Len(b.args)
    THEN [ready |-> FALSE, subst |-> <<>>, deltas |-> <<0, var_cnt>>]
    ELSE UnifyArgs([ready |-> TRUE,
                    subst |-> [v \in 0..(2 * var_cnt - 1) |-> v],
                    deltas |-> <<0, var_cnt>>],
                   a.args, [k \in DOMAIN b.args |-> Shift(b.args[k], var_cnt)], 1)

unify_rules(tgt, tgt_idx, src) ==
    m_unif(get_tail(tgt, tgt_idx), src.head, Max2(get_max_var(tgt), get_max_var(src)) + 1)

\* rule_unifier::apply(app*, is_tgt, res)
ApplyTerm(u, t, is_tgt) == Walk(u.subst, Shift(t, IF is_tgt THEN u.deltas[1] ELSE u.deltas[2]))

ApplyAtom(u, a, is_tgt) ==
    [pred |-> a.pred, args |-> [k \in DOMAIN a.args |-> ApplyTerm(u, a.args[k], is_tgt)]]

\* rule_unifier::apply(rule, is_tgt, skipped_index, res, res_neg): the tail of
\* r without its element skipped_index (none skipped when it is -1)
ApplyTail(u, r, is_tgt, skipped_index) ==
    [pos |-> [k \in DOMAIN r.pos \ {skipped_index + 1} |-> ApplyAtom(u, r.pos[k], is_tgt)],
     neg |-> [k \in DOMAIN r.neg \ {skipped_index + 1 - Len(r.pos)} |-> ApplyAtom(u, r.neg[k], is_tgt)],
     interp |-> [k \in DOMAIN r.interp |->
                    [t |-> ApplyTerm(u, r.interp[k].t, is_tgt), S |-> r.interp[k].S, q |-> r.interp[k].q]]]

\* the values of function f over a set of positions, in order
Compact(f) == Pick(f, DOMAIN f)

AppendNew(init, last) == IF last \in Range(init) THEN init ELSE Append(init, last)

RECURSIVE remove_duplicate_tails(_)
\* the first occurrence of every element kept, the later ones removed
remove_duplicate_tails(s) ==
    IF s = <<>> THEN <<>>
    ELSE AppendNew(remove_duplicate_tails(SubSeq(s, 1, Len(s) - 1)), s[Len(s)])

\* ------------------------------------------------------------------------
\* Interpreted tail simplifier (rule manager)
\* ------------------------------------------------------------------------
\* the unquantified constraints on term t, intersected
MergedSet(cs, t) ==
    {c \in Consts : \A k \in DOMAIN cs : (cs[k].t = t /\ ~cs[k].q) => c \in cs[k].S}

IsFirstOn(cs, k) == \A j \in 1..(k - 1) : ~(cs[j].t = cs[k].t /\ ~cs[j].q)

\* what is left of constraint k: nothing of a ground one and of a repeated
\* one, the merged constraint of the first one on a variable
SimplifyOne(cs, k) ==
    IF cs[k].q THEN <<cs[k]>>
    ELSE IF ~IsVar(cs[k].t) \/ ~IsFirstOn(cs, k) THEN <<>>
    ELSE <<[t |-> cs[k].t, S |-> MergedSet(cs, cs[k].t), q |-> FALSE]>>

RECURSIVE SimplifyFrom(_, _)
SimplifyFrom(cs, k) ==
    IF k > Len(cs) THEN <<>> ELSE SimplifyOne(cs, k) \o SimplifyFrom(cs, k + 1)

Unsat(cs) ==
    \E k \in DOMAIN cs :
        /\ ~cs[k].q
        /\ IF IsVar(cs[k].t) THEN MergedSet(cs, cs[k].t) = {} ELSE cs[k].t \notin cs[k].S

\* m_interp_simplifier.transform_rule: ok = FALSE when the interpreted tail is
\* unsatisfiable, else the rule with its interpreted tail simplified
interp_simplify(r) ==
    IF Unsat(r.interp) THEN [ok |-> FALSE, res |-> r]
    ELSE [ok |-> TRUE, res |-> [r EXCEPT !.interp = SimplifyFrom(r.interp, 1)]]

\* context parameter fix_unbound_vars
fix_unbound_vars == FALSE

BindUnbound(r, bound) ==
    [r EXCEPT !.interp =
        [k \in DOMAIN r.interp |->
            IF IsVar(r.interp[k].t) /\ r.interp[k].t \notin bound
            THEN [r.interp[k] EXCEPT !.q = TRUE] ELSE r.interp[k]]]

\* rule_manager::fix_unbound_vars: the variables that occur in the interpreted
\* tail only are bound by a quantifier
FixUnboundVars(r) ==
    IF fix_unbound_vars
    THEN BindUnbound(r, AtomVars(r.head) \cup AtomsVars(r.pos) \cup AtomsVars(r.neg))
    ELSE r

Resolvent(new_head, a, b, org) ==
    mk(new_head,
       remove_duplicate_tails(Compact(a.pos) \o b.pos),
       remove_duplicate_tails(Compact(a.neg) \o b.neg),
       remove_duplicate_tails(a.interp \o b.interp),
       org)

\* a variant that returns the resolvent without asking the simplifier
applyUnsimplified(u, tgt, tail_index, src) ==
    [ok |-> TRUE,
     res |-> FixUnboundVars(norm_vars(
                 Resolvent(ApplyAtom(u, tgt.head, TRUE),
                           ApplyTail(u, tgt, TRUE, tail_index),
                           ApplyTail(u, src, FALSE, 0 - 1),
                           tgt.org)))]

\* rule_unifier::apply(tgt, tail_index, src, res): [ok, res]
apply(u, tgt, tail_index, src) ==
    interp_simplify(FixUnboundVars(norm_vars(
        Resolvent(ApplyAtom(u, tgt.head, TRUE),
                  ApplyTail(u, tgt, TRUE, tail_index),
                  ApplyTail(u, src, FALSE, 0 - 1),
                  tgt.org))))

\* ------------------------------------------------------------------------
\* mk_rule_inliner: try_to_inline_rule, has_quantifier
\* ------------------------------------------------------------------------
has_quantifier(r) == \E k \in DOMAIN r.interp : r.interp[k].q

\* the record resolve_rule hands to the proof converter
ResolveRecord(tgt, src, tail_index) ==
    [kind |-> "resolve", tgt |-> tgt.org, src |-> src.org, idx |-> tail_index]

\* why tells which return of try_to_inline_rule was taken
InlineFailed(tgt, why) == [ok |-> FALSE, res |-> tgt, proof |-> <<>>, why |-> why]

\* a variant that hands the record to m_pc before looking at the result of apply
InlineAppliedRecordFirst(a, tgt, src, tail_index, pcOn) ==
    [ok |-> a.ok, res |-> IF a.ok THEN a.res ELSE tgt,
     proof |-> IF pcOn THEN <<ResolveRecord(tgt, src, tail_index)>> ELSE <<>>,
     why |-> IF a.ok THEN "inlined" ELSE "unsat"]

InlineApplied(a, tgt, src, tail_index, pcOn) ==
    IF a.ok
    THEN [ok |-> TRUE, res |-> a.res,
          proof |-> IF pcOn THEN <<ResolveRecord(tgt, src, tail_index)>> ELSE <<>>,
          why |-> "inlined"]
    ELSE InlineFailed(tgt, "unsat")

InlineUnified(u, tgt, src, tail_index, pcOn) ==
    IF ~u.ready THEN InlineFailed(tgt, "no unifier")
    ELSE InlineApplied(apply(u, tgt, tail_index, src), tgt, src, tail_index, pcOn)

InlineNormalized(tgt, src, tail_index, pcOn) ==
    IF has_quantifier(src) THEN InlineFailed(tgt, "quantifier")
    ELSE InlineUnified(unify_rules(tgt, tail_index, src), tgt, src, tail_index, pcOn)

\* [ok, res, proof]: proof holds the records emitted to m_pc (pcOn: m_pc is set)
try_to_inline_rule(tgt, src, tail_index, pcOn) ==
    InlineNormalized(norm_vars(tgt), src, tail_index, pcOn)

\* ------------------------------------------------------------------------
\* rule_set and rule_stratifier
\* ------------------------------------------------------------------------
\* rule_set::get_predicate_rules: the rules of head pred, in the order added
get_predicate_rules(rules, pred) == SelectSeq(rules, LAMBDA r : r.head.pred = pred)

PosPreds(r) == {r.pos[k].pred : k \in DOMAIN r.pos}

NegPreds(r) == {r.neg[k].pred : k \in DOMAIN r.neg}

\* the predicates a rule set mentions
RulePreds(rules) ==
    UNION {{rules[k].head.pred} \cup PosPreds(rules[k]) \cup NegPreds(rules[k]) : k \in DOMAIN rules}

\* head depends on positive tail
Deps(rules, p) == UNION {PosPreds(rules[k]) : k \in {j \in DOMAIN rules : rules[j].head.pred = p}}

RECURSIVE ReachFrom(_, _, _)
\* seen with the predicates reachable from the set front
ReachFrom(rules, front, seen) ==
    IF front \subseteq seen THEN seen
    ELSE ReachFrom(rules, UNION {Deps(rules, p) : p \in front \ seen}, seen \cup front)

\* the predicates p depends on, in one or more steps
Reach(rules, p) == ReachFrom(rules, Deps(rules, p), {})

\* the strongly connected component of p, given the relation reach
CompOf(reach, p) == {p} \cup {q \in reach[p] : p \in reach[q]}

\* the predicates outside component c that c depends on
DependsOn(reach, c) == (UNION {reach[p] : p \in c}) \ c

\* the first of the components comps: one that depends on the fewest
\* predicates outside itself, and among these the one of the smallest
\* declaration id
FirstComp(reach, comps) ==
    CHOOSE c \in comps :
        \A d \in comps :
            \/ Cardinality(DependsOn(reach, c)) < Cardinality(DependsOn(reach, d))
            \/ /\ Cardinality(DependsOn(reach, c)) = Cardinality(DependsOn(reach, d))
               /\ SetMin(c) <= SetMin(d)

RECURSIVE SortComps(_, _)
SortCompsFrom(reach, comps, first) == <<first>> \o SortComps(reach, comps \ {first})

SortComps(reach, comps) ==
    IF comps = {} THEN <<>>
    ELSE SortCompsFrom(reach, comps, FirstComp(reach, comps))

StratsOf(reach) == SortComps(reach, {CompOf(reach, p) : p \in DOMAIN reach})

\* rule_stratifier::get_strats: the strongly connected components in
\* topological order, the ones that depend on nothing first
get_strats(rules) == StratsOf([p \in RulePreds(rules) |-> Reach(rules, p)])

\* rule_stratifier::get_predicate_strat
get_predicate_strat(strats, p) ==
    IF \E k \in DOMAIN strats : p \in strats[k]
    THEN CHOOSE k \in DOMAIN strats : p \in strats[k]
    ELSE 0

\* ------------------------------------------------------------------------
\* Planner: counters, admissibility, cycle breaker, multiplier guard
\* ------------------------------------------------------------------------
\* The planner state st is the record of the pass object's members and of
\* what it reads from its context:
\*   [head_pred_ctr, head_pred_non_empty_tails_ctr, tail_pred_ctr,
\*    preds_with_facts, preds_with_neg_occurrence, forbidden_preds,
\*    output (the declared output predicates),
\*    non_empty (the predicates of the relation store with a non-empty relation)].

CountIf(rules, Test(_)) == Cardinality({k \in DOMAIN rules : Test(rules[k])})

\* occurrences of pred in the uninterpreted tail of r
\* a variant that counts the positive occurrences only
TailOccurrencesPositive(r, pred) == Cardinality({k \in DOMAIN r.pos : r.pos[k].pred = pred})

TailOccurrences(r, pred) ==
    Cardinality({k \in DOMAIN r.pos : r.pos[k].pred = pred})
    + Cardinality({k \in DOMAIN r.neg : r.neg[k].pred = pred})

RECURSIVE SumTailOccurrences(_, _, _)
SumTailOccurrences(rules, pred, k) ==
    IF k > Len(rules) THEN 0
    ELSE TailOccurrences(rules[k], pred) + SumTailOccurrences(rules, pred, k + 1)

\* a variant that does not record the negated occurrences
count_pred_occurrences_no_neg(st, orig) ==
    [st EXCEPT
        !.preds_with_facts = st.non_empty,
        !.head_pred_ctr = [p \in Preds |-> CountIf(orig, LAMBDA r : r.head.pred = p)],
        !.head_pred_non_empty_tails_ctr =
            [p \in Preds |-> CountIf(orig, LAMBDA r : r.head.pred = p /\ get_tail_size(r) > 0)],
        !.tail_pred_ctr = [p \in Preds |-> SumTailOccurrences(orig, p, 1)]]

count_pred_occurrences(st, orig) ==
    [st EXCEPT
        !.preds_with_facts = st.non_empty,
        !.head_pred_ctr = [p \in Preds |-> CountIf(orig, LAMBDA r : r.head.pred = p)],
        !.head_pred_non_empty_tails_ctr =
            [p \in Preds |-> CountIf(orig, LAMBDA r : r.head.pred = p /\ get_tail_size(r) > 0)],
        !.tail_pred_ctr = [p \in Preds |-> SumTailOccurrences(orig, p, 1)],
        !.preds_with_neg_occurrence = UNION {NegPreds(orig[k]) : k \in DOMAIN orig}]

\* a variant with the cap on the number of defining rules at three
inlining_allowed_cap3(st, pred) ==
    IF \/ pred \in st.output
       \/ pred \in st.preds_with_facts
       \/ pred \in st.preds_with_neg_occurrence
       \/ pred \in st.forbidden_preds
    THEN FALSE
    ELSE \/ st.head_pred_ctr[pred] <= 1
         \/ (st.tail_pred_ctr[pred] <= 1 /\ st.head_pred_ctr[pred] <= 3)

\* a variant that lets a predicate with several rules have two occurrences
inlining_allowed_tail2(st, pred) ==
    IF \/ pred \in st.output
       \/ pred \in st.preds_with_facts
       \/ pred \in st.preds_with_neg_occurrence
       \/ pred \in st.forbidden_preds
    THEN FALSE
    ELSE \/ st.head_pred_ctr[pred] <= 1
         \/ (st.tail_pred_ctr[pred] <= 2 /\ st.head_pred_ctr[pred] <= 4)

inlining_allowed(st, pred) ==
    IF \/ pred \in st.output
       \/ pred \in st.preds_with_facts
       \/ pred \in st.preds_with_neg_occurrence
       \/ pred \in st.forbidden_preds
    THEN FALSE
    ELSE \/ st.head_pred_ctr[pred] <= 1
         \/ (st.tail_pred_ctr[pred] <= 1 /\ st.head_pred_ctr[pred] <= 4)

create_allowed_rule_set(orig, st) ==
    SelectSeq(orig, LAMBDA r : inlining_allowed(st, r.head.pred))

\* a variant that overlooks the strata of two predicates
NonTrivialOverTwo(strats) == {c \in Range(strats) : Cardinality(c) > 2}

\* the strata of more than one predicate
NonTrivial(strats) == {c \in Range(strats) : Cardinality(c) > 1}

\* forbid_preds_from_cycles inserts the first predicate of every non-trivial
\* stratum; a stratum is a hash set, so any of its predicates may be the first.
\* The sets of predicates the call may insert, given the non-trivial strata nt:
\* a variant that inserts every predicate of the non-trivial strata
PicksOfAll(nt) == {UNION nt}

PicksOf(nt) == {f \in SUBSET (UNION nt) : \A c \in nt : Cardinality(f \cap c) = 1}

CyclePicks(rules) == PicksOf(NonTrivial(get_strats(rules)))

\* forbid_multiple_multipliers, first loop.  s = [st, multi, forbidden, next]:
\* the planner state, is_multi_head_pred, something_forbidden and whether
\* goto process_next_pred was taken.
\* a variant that adds the two counts
MultStepAdd(s, head_pred, is_multi_occurrence_pred, tail_pred) ==
    IF ~inlining_allowed(s.st, tail_pred) \/ s.st.head_pred_ctr[tail_pred] <= 1 THEN s
    ELSE IF s.multi
    THEN [s EXCEPT !.st.forbidden_preds = @ \cup {head_pred}, !.forbidden = TRUE, !.next = TRUE]
    ELSE IF is_multi_occurrence_pred
    THEN [s EXCEPT !.st.forbidden_preds = @ \cup {tail_pred}, !.forbidden = TRUE]
    ELSE [s EXCEPT !.multi = TRUE,
                   !.st.head_pred_ctr[head_pred] = @ + s.st.head_pred_ctr[tail_pred]]

MultStep(s, head_pred, is_multi_occurrence_pred, tail_pred) ==
    IF ~inlining_allowed(s.st, tail_pred) \/ s.st.head_pred_ctr[tail_pred] <= 1 THEN s
    ELSE IF s.multi
    THEN [s EXCEPT !.st.forbidden_preds = @ \cup {head_pred}, !.forbidden = TRUE, !.next = TRUE]
    ELSE IF is_multi_occurrence_pred
    THEN [s EXCEPT !.st.forbidden_preds = @ \cup {tail_pred}, !.forbidden = TRUE]
    ELSE [s EXCEPT !.multi = TRUE,
                   !.st.head_pred_ctr[head_pred] = @ * s.st.head_pred_ctr[tail_pred]]

RECURSIVE MultTail(_, _, _, _, _)
MultTail(s, head_pred, is_multi_occurrence_pred, r, ti) ==
    IF s.next \/ ti >= get_positive_tail_size(r) THEN s
    ELSE MultTail(MultStep(s, head_pred, is_multi_occurrence_pred, r.pos[ti + 1].pred),
                  head_pred, is_multi_occurrence_pred, r, ti + 1)

RECURSIVE MultRules(_, _, _, _, _)
MultRules(s, head_pred, is_multi_occurrence_pred, pred_rules, k) ==
    IF s.next \/ k > Len(pred_rules) THEN s
    ELSE MultRules(MultTail(s, head_pred, is_multi_occurrence_pred, pred_rules[k], 0),
                   head_pred, is_multi_occurrence_pred, pred_rules, k + 1)

MultPred(s, proposed, head_pred) ==
    MultRules([s EXCEPT !.multi = s.st.head_pred_ctr[head_pred] > 1, !.next = FALSE],
              head_pred, s.st.tail_pred_ctr[head_pred] > 1,
              get_predicate_rules(proposed, head_pred), 1)

RECURSIVE MultStrata(_, _, _, _)
MultStrata(s, proposed, comps, k) ==
    IF k > Len(comps) THEN s
    ELSE MultStrata(MultPred(s, proposed, CHOOSE p \in comps[k] : TRUE), proposed, comps, k + 1)

\* a variant of the second loop that forbids nothing
MultOrigStepKeep(s, pred) ==
    IF ~inlining_allowed(s.st, pred) \/ s.st.head_pred_ctr[pred] <= 1 THEN s
    ELSE [s EXCEPT !.multi = TRUE]

\* second loop, one positive tail predicate of a rule whose head may not be
\* inlined.  s = [st, multi, forbidden, next], multi being has_multi_head_pred
MultOrigStep(s, pred) ==
    IF ~inlining_allowed(s.st, pred) \/ s.st.head_pred_ctr[pred] <= 1 THEN s
    ELSE IF s.multi
    THEN [s EXCEPT !.st.forbidden_preds = @ \cup {pred}, !.forbidden = TRUE]
    ELSE [s EXCEPT !.multi = TRUE]

RECURSIVE MultOrigTail(_, _, _)
MultOrigTail(s, r, ti) ==
    IF ti >= get_positive_tail_size(r) THEN s
    ELSE MultOrigTail(MultOrigStep(s, r.pos[ti + 1].pred), r, ti + 1)

\* a variant that does not reset has_multi_head_pred from rule to rule
RECURSIVE MultOrigCarry(_, _, _)
MultOrigCarry(s, orig, ri) ==
    IF ri > Len(orig) THEN s
    ELSE IF inlining_allowed(s.st, orig[ri].head.pred) THEN MultOrigCarry(s, orig, ri + 1)
    ELSE MultOrigCarry(MultOrigTail(s, orig[ri], 0), orig, ri + 1)

RECURSIVE MultOrig(_, _, _)
MultOrig(s, orig, ri) ==
    IF ri > Len(orig) THEN s
    ELSE IF inlining_allowed(s.st, orig[ri].head.pred) THEN MultOrig(s, orig, ri + 1)
    ELSE MultOrig(MultOrigTail([s EXCEPT !.multi = FALSE], orig[ri], 0), orig, ri + 1)

\* [st, forbidden, ...]: the planner state after the call and its return value
forbid_multiple_multipliers(st, orig, proposed_inlined_rules) ==
    MultOrig(MultStrata([st |-> st, multi |-> FALSE, forbidden |-> FALSE, next |-> FALSE],
                        proposed_inlined_rules, get_strats(proposed_inlined_rules), 1),
             orig, 1)

\* ------------------------------------------------------------------------
\* Bulk inliner: transform_rule
\* ------------------------------------------------------------------------
\* What a run of resolution steps did: the rules produced, the records handed
\* to m_pc, the numbers of calls of try_to_inline_rule that succeeded, that
\* failed, and that failed on an unsatisfiable interpreted tail, the head
\* predicates of the rules inlined.
NoSteps == [todo |-> <<>>, proof |-> <<>>, ok |-> 0, failed |-> 0, unsat |-> 0, callees |-> {}]

InlineJoin(t, e, callee) ==
    IF t.ok
    THEN [todo |-> <<t.res>> \o e.todo, proof |-> t.proof \o e.proof, ok |-> e.ok + 1,
          failed |-> e.failed, unsat |-> e.unsat, callees |-> e.callees \cup {callee}]
    ELSE [e EXCEPT !.proof = t.proof \o @, !.failed = @ + 1,
                   !.unsat = IF t.why = "unsat" THEN @ + 1 ELSE @]

\* the loop over pred_rules of transform_rule: rule r resolved at tail index i
\* with every rule of pred_rules from position k on
RECURSIVE InlineEach(_, _, _, _, _)
InlineEach(r, pred_rules, i, k, pcOn) ==
    IF k > Len(pred_rules) THEN NoSteps
    ELSE InlineJoin(try_to_inline_rule(r, pred_rules[k], i, pcOn),
                    InlineEach(r, pred_rules, i, k + 1, pcOn),
                    pred_rules[k].head.pred)

AllowedAt(st, r) == {i \in 0..(Len(r.pos) - 1) : inlining_allowed(st, r.pos[i + 1].pred)}

\* a variant that finds no tail predicate to inline
FirstAllowedNone(st, r) == Len(r.pos)

\* the first positive tail index whose predicate may be inlined, else pt_len
FirstAllowed(st, r) == IF AllowedAt(st, r) = {} THEN Len(r.pos) ELSE SetMin(AllowedAt(st, r))

\* The state of the while loop of transform_rule:
\* w = [todo, tgt, inlined, modified, proof, ok, failed, unsat, callees, dropped];
\* inPlace tells that tgt is m_inlined_rules itself (plan_inlining): the rules
\* are then added to w.inlined.
Popped(w) == [w EXCEPT !.todo = SubSeq(@, 1, Len(@) - 1)]

\* a variant that leaves modified as it was
PushedUnmarked(w, e) ==
    [w EXCEPT !.todo = @ \o e.todo, !.proof = @ \o e.proof,
              !.ok = @ + e.ok, !.failed = @ + e.failed, !.unsat = @ + e.unsat,
              !.callees = @ \cup e.callees]

Pushed(w, e) ==
    [w EXCEPT !.todo = @ \o e.todo, !.modified = TRUE, !.proof = @ \o e.proof,
              !.ok = @ + e.ok, !.failed = @ + e.failed, !.unsat = @ + e.unsat,
              !.callees = @ \cup e.callees]

\* a variant of the loop body without the quantifier test
TransformStepNoTest(w, r, i, st, pcOn, inPlace) ==
    IF i = get_positive_tail_size(r)
    THEN IF inPlace THEN [w EXCEPT !.inlined = Append(@, r)] ELSE [w EXCEPT !.tgt = Append(@, r)]
    ELSE Pushed(w, InlineEach(r, get_predicate_rules(w.inlined, r.pos[i + 1].pred), i, 1, pcOn))

\* a variant that takes every resolvent for finished: it is added to the
\* rule set and not pushed on the worklist
PushedOut(w, e, inPlace) ==
    [Pushed(w, [e EXCEPT !.todo = <<>>]) EXCEPT
        !.inlined = IF inPlace THEN @ \o e.todo ELSE @,
        !.tgt = IF inPlace THEN @ ELSE @ \o e.todo]

TransformStepOnce(w, r, i, st, pcOn, inPlace) ==
    IF has_quantifier(r) THEN [w EXCEPT !.dropped = @ \cup {r.org}]
    ELSE IF i = get_positive_tail_size(r)
    THEN IF inPlace THEN [w EXCEPT !.inlined = Append(@, r)] ELSE [w EXCEPT !.tgt = Append(@, r)]
    ELSE PushedOut(w, InlineEach(r, get_predicate_rules(w.inlined, r.pos[i + 1].pred), i, 1, pcOn), inPlace)

\* one pass through the body of the loop, for the rule r popped
TransformStep(w, r, i, st, pcOn, inPlace) ==
    IF has_quantifier(r) THEN [w EXCEPT !.dropped = @ \cup {r.org}]
    ELSE IF i = get_positive_tail_size(r)
    THEN IF inPlace THEN [w EXCEPT !.inlined = Append(@, r)] ELSE [w EXCEPT !.tgt = Append(@, r)]
    ELSE Pushed(w, InlineEach(r, get_predicate_rules(w.inlined, r.pos[i + 1].pred), i, 1, pcOn))

TransformPop(w, r, st, pcOn, inPlace) ==
    TransformStep(Popped(w), r, FirstAllowed(st, r), st, pcOn, inPlace)

RECURSIVE TransformLoop(_, _, _, _)
TransformLoop(w, st, pcOn, inPlace) ==
    IF w.todo = <<>> THEN w
    ELSE TransformLoop(TransformPop(w, w.todo[Len(w.todo)], st, pcOn, inPlace), st, pcOn, inPlace)

\* transform_rule(r0, tgt) after w: the rules, records and counts of w carried on
transform_rule(w, r0, st, pcOn, inPlace) ==
    TransformLoop([w EXCEPT !.todo = <<r0>>], st, pcOn, inPlace)

NoWork(tgt, inlined) ==
    [todo |-> <<>>, tgt |-> tgt, inlined |-> inlined, modified |-> FALSE,
     proof |-> <<>>, ok |-> 0, failed |-> 0, unsat |-> 0, callees |-> {}, dropped |-> {}]

\* transform_rule applied to the rules rs[k..] in turn
RECURSIVE TransformAll(_, _, _, _, _, _)
TransformAll(w, rs, k, st, pcOn, inPlace) ==
    IF k > Len(rs) THEN w
    ELSE TransformAll(transform_rule(w, rs[k], st, pcOn, inPlace), rs, k + 1, st, pcOn, inPlace)

\* ------------------------------------------------------------------------
\* Eager inliner
\* ------------------------------------------------------------------------
\* a variant that lets a tail predicate be the head predicate itself
OrientedWithSelf(r, strats, head_pred, head_strat) ==
    \A ti \in 0..(get_positive_tail_size(r) - 1) :
        get_predicate_strat(strats, r.pos[ti + 1].pred) = head_strat
        => ~(\/ get_arity(r.pos[ti + 1].pred) > get_arity(head_pred)
             \/ /\ get_arity(r.pos[ti + 1].pred) = get_arity(head_pred)
                /\ r.pos[ti + 1].pred > head_pred)

OrientedWith(r, strats, head_pred, head_strat) ==
    \A ti \in 0..(get_positive_tail_size(r) - 1) :
        get_predicate_strat(strats, r.pos[ti + 1].pred) = head_strat
        => ~(\/ get_arity(r.pos[ti + 1].pred) > get_arity(head_pred)
             \/ /\ get_arity(r.pos[ti + 1].pred) = get_arity(head_pred)
                /\ r.pos[ti + 1].pred >= head_pred)

\* a variant that takes every candidate for oriented
is_oriented_rewriter_always(r, strats) == TRUE

is_oriented_rewriter(r, strats) ==
    OrientedWith(r, strats, get_decl(r), get_predicate_strat(strats, get_decl(r)))

\* the record del_rule hands to the model converter
DelRecord(r) == [kind |-> "del", org |-> r.org, head |-> r.head.pred]

\* What do_eager_inlining(r, rules, res) did: ret is its return value, null
\* tells res = 0, del holds the records handed to m_mc, callee is the head
\* predicate of the rule inlined (0: none), why tells which return was taken,
\* cand is the inlining candidate handed to try_to_inline_rule (r: none).
NoChange(r) ==
    [ret |-> FALSE, null |-> FALSE, res |-> r, proof |-> <<>>, del |-> <<>>,
     callee |-> 0, failed |-> 0, why |-> "none", cand |-> r]

EagerDeleted(r, mcOn, why, failed, proof, cand) ==
    [ret |-> TRUE, null |-> TRUE, res |-> r, proof |-> proof,
     del |-> IF mcOn THEN <<DelRecord(r)>> ELSE <<>>,
     callee |-> 0, failed |-> failed, why |-> why, cand |-> cand]

EagerTried(t, r, cand, ti, mcOn) ==
    IF t.ok
    THEN [ret |-> TRUE, null |-> FALSE, res |-> t.res, proof |-> t.proof, del |-> <<>>,
          callee |-> cand.head.pred, failed |-> 0, why |-> "inlined", cand |-> cand]
    ELSE EagerDeleted(r, mcOn, t.why, 1, t.proof, cand)

RECURSIVE EagerFrom(_, _, _, _, _, _, _)
EagerWith(r, rules, strats, facts, ti, pcOn, mcOn, inlining_candidate) ==
    IF ~is_oriented_rewriter(inlining_candidate, strats)
    THEN EagerFrom(r, rules, strats, facts, ti + 1, pcOn, mcOn)
    ELSE EagerTried(try_to_inline_rule(r, inlining_candidate, ti, pcOn), r, inlining_candidate, ti, mcOn)

\* a variant that takes the first of several unifying rules
EagerCandidateFirst(r, rules, strats, facts, ti, pcOn, mcOn, pred_rules, unifying) ==
    IF unifying = {} THEN EagerDeleted(r, mcOn, "nothing unifies", 0, <<>>, r)
    ELSE EagerWith(r, rules, strats, facts, ti, pcOn, mcOn, pred_rules[SetMin(unifying)])

\* the choice of the inlining candidate among pred_rules; unifying are the
\* positions of the rules that unify with the tail atom
EagerCandidate(r, rules, strats, facts, ti, pcOn, mcOn, pred_rules, unifying) ==
    IF Len(pred_rules) = 0 THEN EagerDeleted(r, mcOn, "nothing unifies", 0, <<>>, r)
    ELSE IF Len(pred_rules) = 1
    THEN EagerWith(r, rules, strats, facts, ti, pcOn, mcOn, pred_rules[1])
    ELSE IF Cardinality(unifying) > 1 THEN EagerFrom(r, rules, strats, facts, ti + 1, pcOn, mcOn)
    ELSE IF unifying = {} THEN EagerDeleted(r, mcOn, "nothing unifies", 0, <<>>, r)
    ELSE EagerWith(r, rules, strats, facts, ti, pcOn, mcOn, pred_rules[CHOOSE ri \in unifying : TRUE])

UnifyingRules(r, ti, pred_rules) ==
    {ri \in DOMAIN pred_rules : unify_rules(r, ti, pred_rules[ri]).ready}

EagerAt(r, rules, strats, facts, ti, pcOn, mcOn, pred_rules) ==
    EagerCandidate(r, rules, strats, facts, ti, pcOn, mcOn, pred_rules,
                   UnifyingRules(r, ti, pred_rules))

\* do_eager_inlining(r, rules, res) from tail index ti on
EagerFrom(r, rules, strats, facts, ti, pcOn, mcOn) ==
    IF ti >= get_positive_tail_size(r) THEN NoChange(r)
    ELSE IF r.pos[ti + 1].pred = get_decl(r) \/ r.pos[ti + 1].pred \in facts
    THEN EagerFrom(r, rules, strats, facts, ti + 1, pcOn, mcOn)
    ELSE EagerAt(r, rules, strats, facts, ti, pcOn, mcOn,
                 get_predicate_rules(rules, r.pos[ti + 1].pred))

do_eager_inlining(r, rules, strats, facts, pcOn, mcOn) ==
    EagerFrom(r, rules, strats, facts, 0, pcOn, mcOn)

\* ------------------------------------------------------------------------
\* Linear inliner: the flags and the unification indices
\* ------------------------------------------------------------------------
\* mk_rule_inliner::add_rule: the flags of rule r
CanRemove(r, st) == ~(get_decl(r) \in st.output \/ get_decl(r) \in st.preds_with_facts)

CanExpand(r, st) ==
    /\ get_uninterpreted_tail_size(r) = 1
    /\ get_positive_tail_size(r) = 1
    /\ r.pos[1].pred \notin st.preds_with_facts
    /\ r.pos[1].pred \notin st.output

AtomsUnify(a, b) == m_unif(a, b, Max2(MaxOr0(AtomVars(a)), MaxOr0(AtomVars(b))) + 1).ready

\* m_head_index.unify(e, m_head_visitor): the positions whose indexed head
\* unifies with e
HeadUnifiers(acc, indexed, e) == {j \in indexed : AtomsUnify(e, acc[j].head)}

RECURSIVE SumOver(_, _)
SumOver(f, X) ==
    IF X = {} THEN 0 ELSE f[SetMin(X)] + SumOver(f, X \ {SetMin(X)})

\* m_tail_index.unify(e, m_tail_visitor): the number of positions collected,
\* one for every indexed uninterpreted tail atom that unifies with e
NumTailUnifiers(acc, indexed, e) ==
    SumOver([j \in indexed |->
                Cardinality({k \in DOMAIN UninterpretedTail(acc[j]) :
                                AtomsUnify(e, UninterpretedTail(acc[j])[k])})],
            indexed)

\* the rules of acc at the valid positions
ValidRules(acc, valid) == Pick(acc, {k \in DOMAIN acc : valid[k]})

\* ------------------------------------------------------------------------
\* Source rule sets
\* ------------------------------------------------------------------------
At(p, t) == [pred |-> p, args |-> <<t>>]

At0(p) == [pred |-> p, args |-> <<>>]

\* the interpreted atom "t is one of S"
In(t, S) == [t |-> t, S |-> S, q |-> FALSE]

\* the same inside a quantifier
QIn(t, S) == [t |-> t, S |-> S, q |-> TRUE]

P == DeclOf("P")
Q == DeclOf("Q")
R == DeclOf("R")
S == DeclOf("S")
Out == DeclOf("Out")
N == DeclOf("N")

\* Programs: a rule list with the output declarations and the non-empty
\* relations it is run with.
\* a chain of single-rule predicates, with constants and a constraint
ProgChain ==
    [rules |-> << mk(At(P, 0), <<At(Q, 0)>>, <<>>, <<>>, 0),
                  mk(At(Q, 0), <<At(R, 0)>>, <<>>, <<>>, 0),
                  mk(At(Out, 0), <<At(P, 0)>>, <<>>, <<>>, 0),
                  mk(At(R, cA), <<>>, <<>>, <<>>, 0),
                  mk(At(Out, 0), <<At(Q, cB)>>, <<>>, <<In(0, {cA})>>, 0) >>,
     outs |-> {{Out}, {Out, Q}},
     facts |-> {{}, {R}}]

\* mutual recursion
ProgCycle ==
    [rules |-> << mk(At(P, 0), <<At(Q, 0)>>, <<>>, <<>>, 0),
                  mk(At(Q, 0), <<At(P, 0)>>, <<>>, <<>>, 0),
                  mk(At(Out, 0), <<At(P, 0)>>, <<>>, <<>>, 0),
                  mk(At(Q, 0), <<At(R, 0)>>, <<>>, <<>>, 0),
                  mk(At(R, 0), <<At(R, 0)>>, <<>>, <<>>, 0) >>,
     outs |-> {{Out}},
     facts |-> {{}, {R}}]

\* several definitions called at several sites
ProgMulti ==
    [rules |-> << mk(At(P, 0), <<At(Q, 0)>>, <<>>, <<>>, 0),
                  mk(At(P, 0), <<At(R, 0)>>, <<>>, <<>>, 0),
                  mk(At(S, 0), <<At(P, 0), At(P, 1)>>, <<>>, <<>>, 0),
                  mk(At(Out, 0), <<At(S, 0)>>, <<>>, <<>>, 0),
                  mk(At(Out, 0), <<At(P, 0)>>, <<>>, <<>>, 0) >>,
     outs |-> {{Out}, {Out, S}},
     facts |-> {{Q, R}, {Q}}]

\* definitions with several rules called from definitions with several rules
ProgMulti2 ==
    [rules |-> << mk(At(Q, cA), <<At(R, 0)>>, <<>>, <<>>, 0),
                  mk(At(Q, cB), <<At(R, 0)>>, <<>>, <<>>, 0),
                  mk(At(P, 0), <<At(Q, 0)>>, <<>>, <<>>, 0),
                  mk(At(P, 0), <<At(R, 0)>>, <<>>, <<>>, 0),
                  mk(At(Out, 0), <<At(P, 0), At(S, 0)>>, <<>>, <<>>, 0) >>,
     outs |-> {{Out}},
     facts |-> {{R, S}, {R}}]

\* interpreted tails that contradict each other
ProgUnsat ==
    [rules |-> << mk(At(P, 0), <<At(Q, 0)>>, <<>>, <<In(0, {cA})>>, 0),
                  mk(At(Q, 0), <<>>, <<>>, <<In(0, {cB})>>, 0),
                  mk(At(Out, 0), <<At(P, 0)>>, <<>>, <<>>, 0),
                  mk(At(Q, 0), <<At(R, 0)>>, <<>>, <<In(0, {cA})>>, 0),
                  mk(At(R, cB), <<At(S, 0)>>, <<>>, <<>>, 0) >>,
     outs |-> {{Out}, {Out, P}, {Out, P, Q}},
     facts |-> {{}, {S}}]

\* a negated occurrence
ProgNeg ==
    [rules |-> << mk(At(P, 0), <<At(Q, 0)>>, <<>>, <<>>, 0),
                  mk(At(R, 0), <<At(Q, 0)>>, <<At(P, 0)>>, <<>>, 0),
                  mk(At(Out, 0), <<At(R, 0)>>, <<>>, <<>>, 0),
                  mk(At(Out, 0), <<At(P, 0)>>, <<>>, <<>>, 0),
                  mk(At(Q, cA), <<>>, <<>>, <<>>, 0) >>,
     outs |-> {{Out}},
     facts |-> {{}, {Q}}]

\* a definition with two rules behind a chain
ProgBranch ==
    [rules |-> << mk(At(P, 0), <<At(Q, 0)>>, <<>>, <<>>, 0),
                  mk(At(Q, 0), <<At(R, 0)>>, <<>>, <<>>, 0),
                  mk(At(Q, 0), <<At(S, 0)>>, <<>>, <<>>, 0),
                  mk(At(Out, 0), <<At(P, 0)>>, <<>>, <<>>, 0),
                  mk(At(S, 0), <<At(P, 0)>>, <<>>, <<>>, 0) >>,
     outs |-> {{Out}, {Out, P}},
     facts |-> {{R, S}, {R}}]

\* quantifiers in interpreted tails
ProgQuant ==
    [rules |-> << mk(At(P, 0), <<At(Q, 0)>>, <<>>, <<QIn(0, {cA, cB})>>, 0),
                  mk(At(Out, 0), <<At(P, 0)>>, <<>>, <<>>, 0),
                  mk(At(Out, 0), <<At(Q, 0)>>, <<>>, <<QIn(0, {cA})>>, 0),
                  mk(At(R, 0), <<At(Q, 0)>>, <<>>, <<>>, 0),
                  mk(At(S, 0), <<At(R, 0)>>, <<>>, <<>>, 0) >>,
     outs |-> {{Out}, {Out, S}},
     facts |-> {{Q}, {Q, P}, {}}]

\* one predicate split by constants, recursive through itself
ProgConst ==
    [rules |-> << mk(At(P, cA), <<At(P, cB)>>, <<>>, <<>>, 0),
                  mk(At(P, cB), <<At(Q, 0)>>, <<>>, <<>>, 0),
                  mk(At(Out, 0), <<At(P, cA)>>, <<>>, <<>>, 0),
                  mk(At(P, cB), <<At(P, cA)>>, <<>>, <<>>, 0),
                  mk(At(R, 0), <<>>, <<At(P, 0)>>, <<>>, 0) >>,
     outs |-> {{Out}, {Out, R}},
     facts |-> {{Q}, {}}]

\* a nullary predicate in a recursive stratum
ProgNullary ==
    [rules |-> << mk(At(P, 0), <<At0(N)>>, <<>>, <<>>, 0),
                  mk(At0(N), <<At(P, 0)>>, <<>>, <<>>, 0),
                  mk(At(Out, 0), <<At(P, 0)>>, <<>>, <<>>, 0),
                  mk(At0(N), <<At(Q, cA)>>, <<>>, <<>>, 0),
                  mk(At(Out, 0), <<At0(N)>>, <<>>, <<In(0, {cB})>>, 0) >>,
     outs |-> {{Out}},
     facts |-> {{Q}, {}}]

\* a rule that calls itself, its predicate negated elsewhere
ProgLoop ==
    [rules |-> << mk(At(S, 0), <<At(P, 0)>>, <<>>, <<>>, 0),
                  mk(At(P, 0), <<At(P, 0)>>, <<>>, <<>>, 0),
                  mk(At(Out, 0), <<At(Q, 0)>>, <<At(P, 0)>>, <<>>, 0),
                  mk(At(Out, 0), <<At(S, 0)>>, <<>>, <<>>, 0),
                  mk(At(P, cA), <<At(Q, cA)>>, <<>>, <<>>, 0) >>,
     outs |-> {{Out}},
     facts |-> {{Q}}]

\* a predicate whose only occurrence is negated, in a rule without positive tail
ProgNegOnly ==
    [rules |-> << mk(At(P, 0), <<At(Q, 0)>>, <<>>, <<>>, 0),
                  mk(At(R, 0), <<>>, <<At(P, 0)>>, <<>>, 0),
                  mk(At(Out, 0), <<At(R, 0)>>, <<>>, <<>>, 0) >>,
     outs |-> {{Out}},
     facts |-> {{}, {Q}}]

\* two definitions with two rules each, called from one rule
ProgGuard ==
    [rules |-> << mk(At(Q, cA), <<At(R, 0)>>, <<>>, <<>>, 0),
                  mk(At(Q, cB), <<At(R, 0)>>, <<>>, <<>>, 0),
                  mk(At(S, cA), <<At(R, 0)>>, <<>>, <<>>, 0),
                  mk(At(S, cB), <<At(R, 0)>>, <<>>, <<>>, 0),
                  mk(At(P, 0), <<At(Q, 0), At(S, 0)>>, <<>>, <<>>, 0),
                  mk(At(Out, 0), <<At(P, 0)>>, <<>>, <<>>, 0) >>,
     outs |-> {{Out}, {Out, P}},
     facts |-> {{R}}]

\* a definition with two rules called from a definition that has two rules
\* or two call sites
ProgGuard2 ==
    [rules |-> << mk(At(Q, cA), <<At(R, 0)>>, <<>>, <<>>, 0),
                  mk(At(Q, cB), <<At(R, 0)>>, <<>>, <<>>, 0),
                  mk(At(P, 0), <<At(Q, 0)>>, <<>>, <<>>, 0),
                  mk(At(P, cA), <<At(S, 0)>>, <<>>, <<>>, 0),
                  mk(At(Out, 0), <<At(P, 0)>>, <<>>, <<>>, 0),
                  mk(At0(N), <<At(P, 0)>>, <<>>, <<>>, 0) >>,
     outs |-> {{Out, N}},
     facts |-> {{R, S}}]

\* a rule with three tail atoms, the first over a relation with facts
ProgGuard3 ==
    [rules |-> << mk(At(P, cA), <<At(R, 0)>>, <<>>, <<>>, 0),
                  mk(At(P, cB), <<At(R, 0)>>, <<>>, <<>>, 0),
                  mk(At(Q, cA), <<At(S, 0)>>, <<>>, <<>>, 0),
                  mk(At(Q, cB), <<At(R, 0)>>, <<>>, <<>>, 0),
                  mk(At(Out, 0), <<At(R, 0), At(P, 0), At(Q, cA)>>, <<>>, <<>>, 0),
                  mk(At(Out, 0), <<At(Q, 0)>>, <<>>, <<>>, 0) >>,
     outs |-> {{Out}},
     facts |-> {{R, S}, {R}}]

\* a definition with two rules behind a chain of single-rule definitions
ProgGuard4 ==
    [rules |-> << mk(At(Q, cA), <<At(R, 0)>>, <<>>, <<>>, 0),
                  mk(At(Q, cB), <<At(R, 0)>>, <<>>, <<>>, 0),
                  mk(At(P, 0), <<At(Q, 0)>>, <<>>, <<>>, 0),
                  mk(At(S, 0), <<At(P, 0)>>, <<>>, <<>>, 0),
                  mk(At(Out, 0), <<At(S, 0)>>, <<>>, <<>>, 0),
                  mk(At0(N), <<At(S, 0)>>, <<>>, <<>>, 0) >>,
     outs |-> {{Out, N}},
     facts |-> {{R}}]

Programs ==
    {ProgChain, ProgCycle, ProgMulti, ProgMulti2, ProgUnsat, ProgNeg, ProgBranch,
     ProgQuant, ProgConst, ProgNullary, ProgLoop, ProgNegOnly, ProgGuard, ProgGuard2,
     ProgGuard3, ProgGuard4}

\* the subsequences of s
SubSeqsOf(s) ==
    {[k \in 1..Cardinality(I) |-> s[CHOOSE i \in I : Cardinality({j \in I : j < i}) = k - 1]]
     : I \in SUBSET (DOMAIN s)}

\* the source rule sets of the model: every rule list of at most MaxRules
\* rules taken in order out of a program
Inputs ==
    UNION {{[rules |-> rs, output |-> o, facts |-> f]
            : rs \in {x \in SubSeqsOf(pr.rules) : Len(x) <= MaxRules},
              o \in pr.outs, f \in pr.facts}
           : pr \in Programs}


\* ------------------------------------------------------------------------
\* State of one call of mk_rule_inliner::operator()
\* ------------------------------------------------------------------------
VARIABLES
    source,          \* the source rule set
    mc,              \* the model converter handed in: [present, parts]
    pc,              \* the proof converter handed in: [present, parts]
    stage,           \* where the call stands
    st,              \* the planner state (counters, sets, output declarations)
    candidate,       \* candidate_inlined_set of plan_inlining
    strata,          \* the strata plan_inlining iterates, and its position
    m_inlined_rules, \* the rules of the predicates being inlined
    res,             \* the rule set under construction
    something_done,
    hsmc,            \* the pass's model converter (m_mc): [set, recs]
    hpc,             \* the pass's proof converter (m_pc): [set, recs]
    loop,            \* position of the rule loop of transform_rules
    eager,           \* locals of do_eager_inlining(rules)
    lin,             \* locals of inline_linear
    result,          \* the value returned: [null, rules]
    log,             \* history: what the stages did
    query            \* the last call of inlining_allowed made from outside: [pred, answer]

vars ==
    <<source, mc, pc, stage, st, candidate, strata, m_inlined_rules, res, something_done,
      hsmc, hpc, loop, eager, lin, result, log, query>>

NoRule == mk([pred |-> 0, args |-> <<>>], <<>>, <<>>, <<>>, 0)

NoEager == [i |-> 0, r |-> NoRule, res |-> <<>>, done_something |-> FALSE, strats |-> <<>>]

NoLin ==
    [i |-> 0, acc |-> <<>>, valid |-> <<>>, can_remove |-> <<>>, can_expand |-> <<>>,
     indexed |-> {}, allow_branching |-> FALSE, done_something |-> FALSE, steps |-> 0]

NoLog ==
    [callees |-> {},     \* <<stage, head predicate>> of every rule inlined into another
     absorbed |-> {},    \* <<stage, head predicate, org>> of every rule removed as inlined
     deleted |-> {},     \* <<org, reason>> of every rule deleted or dropped
     ok |-> 0,           \* successful calls of try_to_inline_rule
     failed |-> 0,       \* failed calls of try_to_inline_rule
     unsat |-> 0,        \* those of them that failed on an unsatisfiable interpreted tail
     eager_deleted |-> 0,    \* rules deleted by do_eager_inlining
     eager_unsat |-> 0,      \* those of them deleted for an unsatisfiable resolvent
     linear_deleted |-> 0,   \* rules invalidated by inline_linear
     forbidden_by |-> <<>>]  \* the sets the cycle breaker added, in order

NoQuery == [pred |-> 0, answer |-> FALSE]

\* the planner state of a fresh pass object in a context with the output
\* declarations output and the non-empty relations non_empty
NoPlan(output, non_empty) ==
    [head_pred_ctr |-> [p \in Preds |-> 0],
     head_pred_non_empty_tails_ctr |-> [p \in Preds |-> 0],
     tail_pred_ctr |-> [p \in Preds |-> 0],
     preds_with_facts |-> {},
     preds_with_neg_occurrence |-> {},
     forbidden_preds |-> {},
     output |-> output,
     non_empty |-> non_empty]

\* the accounting parent of a source rule is its own position
WithOrg(rs) == [k \in DOMAIN rs |-> [rs[k] EXCEPT !.org = k]]

Given(b) == [present |-> b, parts |-> IF b THEN <<"given">> ELSE <<>>]

Locals ==
    /\ stage = "start"
    /\ candidate = <<>>
    /\ strata = [comps |-> <<>>, i |-> 0]
    /\ m_inlined_rules = <<>>
    /\ res = <<>>
    /\ something_done = FALSE
    /\ hsmc = [set |-> FALSE, recs |-> <<>>]
    /\ hpc = [set |-> FALSE, recs |-> <<>>]
    /\ loop = 0
    /\ eager = NoEager
    /\ lin = NoLin
    /\ result = [null |-> TRUE, rules |-> <<>>]
    /\ log = NoLog
    /\ query = NoQuery

InitFrom(inputs) ==
    /\ \E inp \in inputs :
        /\ source = WithOrg(inp.rules)
        /\ st = NoPlan(inp.output, inp.facts)
    /\ mc \in {Given(b) : b \in BOOLEAN}
    /\ pc \in {Given(b) : b \in BOOLEAN}
    /\ Locals

Init == InitFrom(Inputs)

\* operator(): a source without rules returns 0 at once
ReturnEmptySource ==
    /\ stage = "start"
    /\ Len(source) = 0
    /\ stage' = "done"
    /\ UNCHANGED <<source, mc, pc, st, candidate, strata, m_inlined_rules, res, something_done,
                   hsmc, hpc, loop, eager, lin, result, log, query>>

Counted(c) ==
    /\ st' = c
    /\ candidate' = create_allowed_rule_set(source, c)

\* operator() up to the first create_allowed_rule_set of plan_inlining
Start ==
    /\ stage = "start"
    /\ Len(source) > 0
    /\ hsmc' = [set |-> mc.present, recs |-> <<>>]
    /\ hpc' = [set |-> pc.present, recs |-> <<>>]
    /\ Counted(count_pred_occurrences(st, source))
    /\ stage' = "cycles"
    /\ UNCHANGED <<source, mc, pc, strata, m_inlined_rules, res, something_done, loop, eager,
                   lin, result, log, query>>

Forbidden(f) ==
    /\ st' = f
    /\ candidate' = create_allowed_rule_set(source, f)

\* one round of the while loop of plan_inlining in which
\* forbid_preds_from_cycles forbids something
ForbidPredsFromCycles ==
    /\ stage = "cycles"
    /\ NonTrivial(get_strats(candidate)) # {}
    /\ \E picks \in CyclePicks(candidate) :
        /\ Forbidden([st EXCEPT !.forbidden_preds = @ \cup picks])
        /\ log' = [log EXCEPT !.forbidden_by = Append(@, picks)]
    /\ UNCHANGED <<source, mc, pc, stage, strata, m_inlined_rules, res, something_done, hsmc,
                   hpc, loop, eager, lin, result, query>>

Planned(c) ==
    /\ candidate' = c
    /\ strata' = [comps |-> get_strats(c), i |-> 1]

Multiplied(f) ==
    /\ st' = f.st
    /\ Planned(IF f.forbidden THEN create_allowed_rule_set(source, f.st) ELSE candidate)

\* forbid_preds_from_cycles returns false: the loop ends; then
\* forbid_multiple_multipliers and the strata of the set to inline
ForbidMultipleMultipliers ==
    /\ stage = "cycles"
    /\ NonTrivial(get_strats(candidate)) = {}
    /\ Multiplied(forbid_multiple_multipliers(st, source, candidate))
    /\ stage' = "fill"
    /\ UNCHANGED <<source, mc, pc, m_inlined_rules, res, something_done, hsmc, hpc, loop, eager,
                   lin, result, log, query>>

\* the history after the loop state w of transform_rule
Logged(w) ==
    [log EXCEPT !.ok = @ + w.ok, !.failed = @ + w.failed, !.unsat = @ + w.unsat,
                !.callees = @ \cup {<<"bulk", p>> : p \in w.callees},
                !.deleted = @ \cup {<<o, "quantifier">> : o \in w.dropped}]

Filled(w) ==
    /\ m_inlined_rules' = w.inlined
    /\ hpc' = [hpc EXCEPT !.recs = @ \o w.proof]
    /\ log' = Logged(w)

\* plan_inlining: one stratum of the set to inline
PlanStratum ==
    /\ stage = "fill"
    /\ strata.i <= Len(strata.comps)
    /\ Filled(TransformAll(NoWork(<<>>, m_inlined_rules),
                           get_predicate_rules(candidate, CHOOSE p \in strata.comps[strata.i] : TRUE),
                           1, st, hpc.set, TRUE))
    /\ strata' = [strata EXCEPT !.i = @ + 1]
    /\ UNCHANGED <<source, mc, pc, stage, st, candidate, res, something_done, hsmc, loop, eager,
                   lin, result, query>>

\* plan_inlining returns; operator() allocates res
PlanDone ==
    /\ stage = "fill"
    /\ strata.i > Len(strata.comps)
    /\ stage' = "transform"
    /\ loop' = 1
    /\ UNCHANGED <<source, mc, pc, st, candidate, strata, m_inlined_rules, res, something_done,
                   hsmc, hpc, eager, lin, result, log, query>>

Transformed(w) ==
    /\ res' = w.tgt
    /\ something_done' = (something_done \/ w.modified)
    /\ hpc' = [hpc EXCEPT !.recs = @ \o w.proof]
    /\ log' = Logged(w)

Eliminated(r) ==
    /\ log' = [log EXCEPT !.absorbed = @ \cup {<<"bulk", get_decl(r), r.org>>}]
    /\ UNCHANGED <<res, something_done, hpc>>

\* transform_rules: one rule of the source
TransformRules ==
    /\ stage = "transform"
    /\ loop <= Len(source)
    /\ IF inlining_allowed(st, get_decl(source[loop]))
       THEN Eliminated(source[loop])
       ELSE Transformed(transform_rule(NoWork(res, m_inlined_rules), source[loop], st, hpc.set, FALSE))
    /\ loop' = loop + 1
    /\ UNCHANGED <<source, mc, pc, stage, st, candidate, strata, m_inlined_rules, hsmc, eager,
                   lin, result, query>>

\* transform_rules returns; res is closed and do_eager_inlining(res) starts
TransformDone ==
    /\ stage = "transform"
    /\ loop > Len(source)
    /\ stage' = "eager"
    /\ eager' = [i |-> 1, r |-> IF Len(res) >= 1 THEN res[1] ELSE NoRule, res |-> <<>>,
                 done_something |-> FALSE, strats |-> get_strats(res)]
    /\ UNCHANGED <<source, mc, pc, st, candidate, strata, m_inlined_rules, res, something_done,
                   hsmc, hpc, loop, lin, result, log, query>>

\* ------------------------------------------------------------------------
\* Eager inliner: the driver do_eager_inlining(rules)
\* ------------------------------------------------------------------------
EagerCall == do_eager_inlining(eager.r, res, eager.strats, st.preds_with_facts, hpc.set, hsmc.set)

\* the for loop moves to the next rule, added being what was added to res
EagerNext(added) ==
    [eager EXCEPT !.i = @ + 1,
                  !.r = IF eager.i + 1 <= Len(res) THEN res[eager.i + 1] ELSE NoRule,
                  !.res = @ \o added]

Replaced(e) ==
    /\ e.ret /\ ~e.null
    /\ eager' = [eager EXCEPT !.r = e.res, !.done_something = TRUE]
    /\ hpc' = [hpc EXCEPT !.recs = @ \o e.proof]
    /\ log' = [log EXCEPT !.ok = @ + 1, !.callees = @ \cup {<<"eager", e.callee>>}]

\* the while loop of do_eager_inlining(rules): r is replaced by its resolvent
EagerInline ==
    /\ stage = "eager"
    /\ eager.i <= Len(res)
    /\ Replaced(EagerCall)
    /\ UNCHANGED <<source, mc, pc, stage, st, candidate, strata, m_inlined_rules, res,
                   something_done, hsmc, loop, lin, result, query>>

Deleted(e) ==
    /\ e.ret /\ e.null
    /\ eager' = [EagerNext(<<>>) EXCEPT !.done_something = TRUE]
    /\ hsmc' = [hsmc EXCEPT !.recs = @ \o e.del]
    /\ hpc' = [hpc EXCEPT !.recs = @ \o e.proof]
    /\ log' = [log EXCEPT !.failed = @ + e.failed,
                          !.unsat = IF e.why = "unsat" THEN @ + 1 ELSE @,
                          !.eager_deleted = @ + 1,
                          !.eager_unsat = IF e.why = "unsat" THEN @ + 1 ELSE @,
                          !.deleted = @ \cup {<<eager.r.org, e.why>>}]

\* the while loop of do_eager_inlining(rules): r is deleted
EagerDelete ==
    /\ stage = "eager"
    /\ eager.i <= Len(res)
    /\ Deleted(EagerCall)
    /\ UNCHANGED <<source, mc, pc, stage, st, candidate, strata, m_inlined_rules, res,
                   something_done, loop, lin, result, query>>

\* the while loop ends: r is added to the result
EagerKeep ==
    /\ stage = "eager"
    /\ eager.i <= Len(res)
    /\ ~EagerCall.ret
    /\ eager' = EagerNext(<<eager.r>>)
    /\ UNCHANGED <<source, mc, pc, stage, st, candidate, strata, m_inlined_rules, res,
                   something_done, hsmc, hpc, loop, lin, result, log, query>>

\* do_eager_inlining(rules) returns
EagerDone ==
    /\ stage = "eager"
    /\ eager.i > Len(res)
    /\ res' = IF eager.done_something THEN eager.res ELSE res
    /\ something_done' = (something_done \/ eager.done_something)
    /\ stage' = "params"
    /\ UNCHANGED <<source, mc, pc, st, candidate, strata, m_inlined_rules, hsmc, hpc, loop,
                   eager, lin, result, log, query>>

\* ------------------------------------------------------------------------
\* Linear inliner: inline_linear
\* ------------------------------------------------------------------------
\* operator() reads inline-linear: false, inline_linear is not called
SkipLinear ==
    /\ stage = "params"
    /\ stage' = "finish"
    /\ UNCHANGED <<source, mc, pc, st, candidate, strata, m_inlined_rules, res, something_done,
                   hsmc, hpc, loop, eager, lin, result, log, query>>

\* inline_linear up to its main loop: the indices and flags of every rule
InlineLinearStart ==
    /\ stage = "params"
    /\ \E allow_branching \in BOOLEAN :
        lin' = [i |-> 1,
                acc |-> res,
                valid |-> [k \in DOMAIN res |-> TRUE],
                can_remove |-> [k \in DOMAIN res |-> CanRemove(res[k], st)],
                can_expand |-> [k \in DOMAIN res |-> CanExpand(res[k], st)],
                indexed |-> DOMAIN res,
                allow_branching |-> allow_branching,
                done_something |-> FALSE,
                steps |-> 0]
    /\ stage' = "linear"
    /\ UNCHANGED <<source, mc, pc, st, candidate, strata, m_inlined_rules, res, something_done,
                   hsmc, hpc, loop, eager, result, log, query>>

\* One pass through the body of while (true) for position lin.i.  go tells
\* whether it runs to its end (else it breaks), tried whether
\* try_to_inline_rule was called; j and k are the unique head unifier and
\* num_tail_unifiers.
LinBreak ==
    [go |-> FALSE, tried |-> FALSE, j |-> 0, k |-> 0, rl_res |-> NoRule, proof |-> <<>>,
     why |-> "none"]

LinTried(j, k, t) ==
    [go |-> t.ok, tried |-> TRUE, j |-> j, k |-> k, rl_res |-> t.res, proof |-> t.proof,
     why |-> t.why]

LinTails(j, k) ==
    IF ~lin.allow_branching /\ k # 1 THEN LinBreak
    ELSE LinTried(j, k, try_to_inline_rule(lin.acc[lin.i], lin.acc[j], 0, hpc.set))

LinCallee(j) ==
    IF ~lin.can_remove[j] \/ ~lin.valid[j] \/ lin.i = j THEN LinBreak
    ELSE LinTails(j, NumTailUnifiers(lin.acc, lin.indexed, lin.acc[j].head))

\* a variant that takes the smallest head unifier when there are several
LinUnifiersAny(unifiers) ==
    IF unifiers = {} THEN LinBreak ELSE LinCallee(SetMin(unifiers))

LinUnifiers(unifiers) ==
    IF Cardinality(unifiers) # 1 THEN LinBreak ELSE LinCallee(CHOOSE j \in unifiers : TRUE)

LinearBody ==
    IF ~lin.valid[lin.i] \/ ~lin.can_expand[lin.i] THEN LinBreak
    ELSE LinUnifiers(HeadUnifiers(lin.acc, lin.indexed, get_tail(lin.acc[lin.i], 0)))

\* a variant that leaves can_expand[i] as it was before the step
LinAfterKeep(b) ==
    [lin EXCEPT
        !.acc[lin.i] = b.rl_res,
        !.can_remove[lin.i] = @ /\ CanRemove(b.rl_res, st),
        !.valid[b.j] = IF b.k = 1 THEN FALSE ELSE @,
        !.indexed = IF b.k = 1 THEN @ \ {b.j} ELSE @,
        !.done_something = TRUE,
        !.steps = @ + 1]

\* a variant that invalidates r_j whatever the number of its tail unifiers
LinAfterAlways(b) ==
    [lin EXCEPT
        !.acc[lin.i] = b.rl_res,
        !.can_remove[lin.i] = @ /\ CanRemove(b.rl_res, st),
        !.can_expand[lin.i] = lin.can_expand[b.j],
        !.valid[b.j] = FALSE,
        !.indexed = @ \ {b.j},
        !.done_something = TRUE,
        !.steps = @ + 1]

\* the locals of inline_linear after a pass that ran to its end
LinAfter(b) ==
    [lin EXCEPT
        !.acc[lin.i] = b.rl_res,
        !.can_remove[lin.i] = @ /\ CanRemove(b.rl_res, st),
        !.can_expand[lin.i] = lin.can_expand[b.j],
        !.valid[b.j] = IF b.k = 1 THEN FALSE ELSE @,
        !.indexed = IF b.k = 1 THEN @ \ {b.j} ELSE @,
        !.done_something = TRUE,
        !.steps = @ + 1]

Inlined(b) ==
    /\ b.go
    /\ lin' = LinAfter(b)
    /\ hpc' = [hpc EXCEPT !.recs = @ \o b.proof]
    /\ hsmc' = [hsmc EXCEPT !.recs =
                    @ \o (IF b.k = 1 /\ hsmc.set THEN <<DelRecord(lin.acc[b.j])>> ELSE <<>>)]
    /\ log' = [log EXCEPT
                 !.ok = @ + 1,
                 !.callees = @ \cup {<<"linear", get_decl(lin.acc[b.j])>>},
                 !.linear_deleted = IF b.k = 1 THEN @ + 1 ELSE @,
                 !.absorbed = @ \cup (IF b.k = 1
                                      THEN {<<"linear", get_decl(lin.acc[b.j]), lin.acc[b.j].org>>}
                                      ELSE {})]

\* the number of passes of the body modelled at one position
MaxSteps == 4

\* the body runs to its end: r_j is inlined into r_i
LinearInline ==
    /\ stage = "linear"
    /\ lin.i <= Len(lin.acc)
    /\ lin.steps < MaxSteps
    /\ Inlined(LinearBody)
    /\ UNCHANGED <<source, mc, pc, stage, st, candidate, strata, m_inlined_rules, res,
                   something_done, loop, eager, result, query>>

Broken(b) ==
    /\ ~b.go
    /\ hpc' = [hpc EXCEPT !.recs = @ \o b.proof]
    /\ log' = [log EXCEPT !.failed = @ + (IF b.tried THEN 1 ELSE 0),
                          !.unsat = @ + (IF b.why = "unsat" THEN 1 ELSE 0)]

\* the body breaks: the for loop moves to the next position
LinearBreak ==
    /\ stage = "linear"
    /\ lin.i <= Len(lin.acc)
    /\ Broken(LinearBody)
    /\ lin' = [lin EXCEPT !.i = @ + 1, !.steps = 0]
    /\ UNCHANGED <<source, mc, pc, stage, st, candidate, strata, m_inlined_rules, res,
                   something_done, hsmc, loop, eager, result, query>>

\* inline_linear returns
LinearDone ==
    /\ stage = "linear"
    /\ lin.i > Len(lin.acc)
    /\ res' = IF lin.done_something THEN ValidRules(lin.acc, lin.valid) ELSE res
    /\ something_done' = (something_done \/ lin.done_something)
    /\ stage' = "finish"
    /\ UNCHANGED <<source, mc, pc, st, candidate, strata, m_inlined_rules, hsmc, hpc, loop,
                   eager, lin, result, log, query>>

\* concat(mc.get(), hsmc.get())
concat(given, own) == [given EXCEPT !.parts = Append(@, own.recs)]

\* a variant that leaves the converter handed in as it is
NotComposed(given, own) == given

\* if (mc) mc = concat(mc.get(), hsmc.get()), and the same for pc
Composed(given, own) == IF given.present THEN concat(given, own) ELSE given

\* the end of operator()
Finish ==
    /\ stage = "finish"
    /\ IF ~something_done
       THEN /\ result' = [null |-> TRUE, rules |-> <<>>]
            /\ UNCHANGED <<mc, pc>>
       ELSE /\ result' = [null |-> FALSE, rules |-> res]
            /\ mc' = Composed(mc, hsmc)
            /\ pc' = Composed(pc, hpc)
    /\ stage' = "done"
    /\ UNCHANGED <<source, st, candidate, strata, m_inlined_rules, res, something_done, hsmc,
                   hpc, loop, eager, lin, log, query>>

Next ==
    \/ ReturnEmptySource
    \/ Start
    \/ ForbidPredsFromCycles
    \/ ForbidMultipleMultipliers
    \/ PlanStratum
    \/ PlanDone
    \/ TransformRules
    \/ TransformDone
    \/ EagerInline
    \/ EagerDelete
    \/ EagerKeep
    \/ EagerDone
    \/ SkipLinear
    \/ InlineLinearStart
    \/ LinearInline
    \/ LinearBreak
    \/ LinearDone
    \/ Finish

Spec == Init /\ [][Next]_vars

\* ------------------------------------------------------------------------
\* The planner asked about a predicate, in any state of its counters and sets
\* ------------------------------------------------------------------------
\* largest number of defining rules and of tail occurrences drawn
MaxHeadCount == 5
MaxTailCount == 2

\* the planner states in which only predicate p has been counted or marked
PlannerStates(p) ==
    {[NoPlan(o, {}) EXCEPT !.head_pred_ctr[p] = h, !.tail_pred_ctr[p] = t,
                           !.preds_with_facts = f, !.preds_with_neg_occurrence = n,
                           !.forbidden_preds = b]
     : h \in 0..MaxHeadCount, t \in 0..MaxTailCount,
       o \in SUBSET {p}, f \in SUBSET {p}, n \in SUBSET {p}, b \in SUBSET {p}}

PlannerInit ==
    /\ source = <<>>
    /\ st \in UNION {PlannerStates(p) : p \in Preds}
    /\ mc = Given(FALSE)
    /\ pc = Given(FALSE)
    /\ Locals

\* inlining_allowed(pred) is called
AskInliningAllowed ==
    /\ \E pred \in Preds : query' = [pred |-> pred, answer |-> inlining_allowed(st, pred)]
    /\ UNCHANGED <<source, mc, pc, stage, st, candidate, strata, m_inlined_rules, res,
                   something_done, hsmc, hpc, loop, eager, lin, result, log>>

PlannerNext == AskInliningAllowed

PlannerSpec == PlannerInit /\ [][PlannerNext]_vars

\* ------------------------------------------------------------------------
\* The eager and the linear stage on their own: do_eager_inlining(rules) and
\* inline_linear(rules) handed any closed rule set
\* ------------------------------------------------------------------------
\* the pass object, about to hand the rules of an input to one of its stages
StageLocals(inp, s) ==
    /\ source = WithOrg(inp.rules)
    /\ st = count_pred_occurrences(NoPlan(inp.output, inp.facts), WithOrg(inp.rules))
    /\ res = WithOrg(inp.rules)
    /\ stage = s
    /\ eager = IF s = "eager"
               THEN [i |-> 1, r |-> WithOrg(inp.rules)[1], res |-> <<>>,
                     done_something |-> FALSE, strats |-> get_strats(inp.rules)]
               ELSE NoEager

StageInit(s) ==
    /\ \E inp \in {x \in Inputs : Len(x.rules) > 0} : StageLocals(inp, s)
    /\ mc \in {Given(b) : b \in BOOLEAN}
    /\ pc \in {Given(b) : b \in BOOLEAN}
    /\ hsmc = [set |-> mc.present, recs |-> <<>>]
    /\ hpc = [set |-> pc.present, recs |-> <<>>]
    /\ candidate = <<>>
    /\ strata = [comps |-> <<>>, i |-> 0]
    /\ m_inlined_rules = <<>>
    /\ something_done = FALSE
    /\ loop = 0
    /\ lin = NoLin
    /\ result = [null |-> TRUE, rules |-> <<>>]
    /\ log = NoLog
    /\ query = NoQuery

EagerInit == StageInit("eager")

EagerStageNext ==
    \/ EagerInline
    \/ EagerDelete
    \/ EagerKeep
    \/ EagerDone

EagerSpec == EagerInit /\ [][EagerStageNext]_vars

LinearInit == StageInit("params")

LinearStageNext ==
    \/ InlineLinearStart
    \/ LinearInline
    \/ LinearBreak
    \/ LinearDone

LinearSpec == LinearInit /\ [][LinearStageNext]_vars

\* ------------------------------------------------------------------------
\* Meaning of a rule set: the facts derivable from it and from base facts
\* ------------------------------------------------------------------------
\* A fact is a ground atom; an interpretation is a set of facts.
Ground(a, v) ==
    [pred |-> a.pred,
     args |-> [k \in DOMAIN a.args |-> IF IsVar(a.args[k]) THEN v[a.args[k]] ELSE a.args[k]]]

HoldsIn(c, v) == (IF IsVar(c.t) THEN v[c.t] ELSE c.t) \in c.S

\* the tail of r holds in I under the assignment v
Fires(r, v, I) ==
    /\ \A k \in DOMAIN r.pos : Ground(r.pos[k], v) \in I
    /\ \A k \in DOMAIN r.neg : Ground(r.neg[k], v) \notin I
    /\ \A k \in DOMAIN r.interp : HoldsIn(r.interp[k], v)

Consequences(rules, I) ==
    UNION {{Ground(rules[k].head, v) : v \in {x \in [RuleVars(rules[k]) -> Consts] : Fires(rules[k], x, I)}}
           : k \in DOMAIN rules}

RECURSIVE LfpFrom(_, _)
LfpNext(rules, I, J) == IF J \subseteq I THEN I ELSE LfpFrom(rules, I \cup J)

LfpFrom(rules, I) == LfpNext(rules, I, Consequences(rules, I))

\* the stratum of negation of the head of r, given the strata lvl of the predicates
LevelOf(r, lvl) ==
    SetMax({0} \cup {lvl[q] : q \in PosPreds(r)} \cup {lvl[q] + 1 : q \in NegPreds(r)})

RaiseLevels(rules, lvl) ==
    [p \in Preds |-> SetMax({lvl[p]} \cup {LevelOf(rules[k], lvl) : k \in {j \in DOMAIN rules : rules[j].head.pred = p}})]

RECURSIVE LevelsFrom(_, _, _)
LevelsFrom(rules, lvl, n) ==
    IF n = 0 THEN lvl ELSE LevelsFrom(rules, RaiseLevels(rules, lvl), n - 1)

\* the strata of negation of a stratified rule set
Levels(rules) == LevelsFrom(rules, [p \in Preds |-> 0], Cardinality(Preds))

RECURSIVE EvalFrom(_, _, _, _)
EvalFrom(rules, lvl, k, I) ==
    IF k > Cardinality(Preds) THEN I
    ELSE EvalFrom(rules, lvl, k + 1,
                  LfpFrom(SelectSeq(rules, LAMBDA r : lvl[r.head.pred] <= k), I))

\* the perfect model of the rules over the base facts edb
Derivable(rules, edb) == EvalFrom(rules, Levels(rules), 0, edb)

FactsOf(p) ==
    IF get_arity(p) = 0 THEN {[pred |-> p, args |-> <<>>]}
    ELSE {[pred |-> p, args |-> <<c>>] : c \in Consts}

\* the base facts with which exactly the relations of non_empty are not empty
BaseFacts(non_empty) ==
    {I \in SUBSET (UNION {FactsOf(p) : p \in non_empty}) :
        \A p \in non_empty : \E a \in I : a.pred = p}

OutputFacts(rules, edb, output) == {a \in Derivable(rules, edb) : a.pred \in output}

\* the rule set the host goes on with
Produced == IF result.null THEN source ELSE result.rules

\* C1: for every source rule set and all base facts, the facts derivable for
\* the declared output predicates from the rule set the call leaves the host
\* with are the facts derivable for them from the source.
C1_Preservation ==
    stage = "done" =>
        \A edb \in BaseFacts(st.non_empty) :
            OutputFacts(Produced, edb, st.output) = OutputFacts(source, edb, st.output)

\* C2: every source rule whose head is a declared output predicate has a
\* descendant in the rule set the call leaves the host with; no stage deletes it.
C2_OutputRulesKept ==
    stage = "done" =>
        \A k \in DOMAIN source :
            source[k].head.pred \in st.output => \E j \in DOMAIN Produced : Produced[j].org = k

\* C3: no rule whose head predicate occurs negated in the source is used as
\* the callee of a resolution step or removed for having been inlined.
C3_NegatedNeverInlined ==
    /\ \A c \in log.callees : c[2] \notin st.preds_with_neg_occurrence
    /\ \A a \in log.absorbed : a[2] \notin st.preds_with_neg_occurrence

\* C4: no rule whose head predicate is in preds_with_facts is used as the
\* callee of a resolution step, and none is removed from the rule set.
C4_FactsUntouched ==
    /\ \A c \in log.callees : c[2] \notin st.preds_with_facts
    /\ stage = "done" =>
        \A k \in DOMAIN source :
            source[k].head.pred \in st.preds_with_facts => \E j \in DOMAIN Produced : Produced[j].org = k

\* the body of the loop of inline_linear runs to its end and leaves the rules,
\* the flags and the indices as they were: it is repeated without end
LinearRepeats ==
    /\ stage = "linear"
    /\ lin.i <= Len(lin.acc)
    /\ LinearBody.go
    /\ LinAfter(LinearBody) = [lin EXCEPT !.steps = @ + 1]

\* C5: inline_linear terminates: at no rule position does the loop come to
\* repeat the same inline step for ever, whatever inline-linear-branch is.
C5_LinearTerminates == ~LinearRepeats

\* a round of the cycle breaker: plan_inlining stays in its while loop
CycleRound == stage = "cycles" /\ stage' = "cycles"

\* the round forbids a predicate that inlining_allowed accepted before it
AddsAdmissible ==
    \E p \in st'.forbidden_preds \ st.forbidden_preds : inlining_allowed(st, p)

\* the strata plan_inlining iterates are those of the set to inline, one
\* predicate each
SingletonStrata ==
    stage \in {"fill", "transform"} =>
        /\ strata.comps = get_strats(candidate)
        /\ candidate = create_allowed_rule_set(source, st)
        /\ \A k \in DOMAIN strata.comps : Cardinality(strata.comps[k]) = 1

\* C6: every round of the cycle breaker that does not leave the loop adds to
\* forbidden_preds a predicate that was admissible before it, so that the
\* loop is left after at most as many rounds as there are predicates; and the
\* set to inline, rebuilt after the multiplier guard, has singleton strata only.
C6_CycleBreaker ==
    /\ [][CycleRound => AddsAdmissible]_vars
    /\ [](Len(log.forbidden_by) <= Cardinality(Preds))
    /\ []SingletonStrata

C6_Witness ==
    /\ stage = "fill"
    /\ Len(log.forbidden_by) >= 1
    /\ Len(strata.comps) >= 2

\* C7: inlining_allowed(p) is true exactly when p is no output predicate,
\* has no facts, no negated occurrence, is not forbidden, and has at most one
\* defining rule or at most one tail occurrence and at most four defining rules.
C7_InliningAllowedIff ==
    query.pred \in Preds =>
        (query.answer <=>
            /\ query.pred \notin st.output
            /\ query.pred \notin st.preds_with_facts
            /\ query.pred \notin st.preds_with_neg_occurrence
            /\ query.pred \notin st.forbidden_preds
            /\ \/ st.head_pred_ctr[query.pred] <= 1
               \/ (st.tail_pred_ctr[query.pred] <= 1 /\ st.head_pred_ctr[query.pred] <= 4))

C7_Witness ==
    /\ query.pred \in Preds
    /\ query.answer
    /\ st.head_pred_ctr[query.pred] = 4
    /\ st.tail_pred_ctr[query.pred] = 1

\* C8 as stated: when the call returns 0 the rule set the stages computed is
\* the source, no rule added, removed or rewritten.
C8_NullMeansUntouched == (stage = "done" /\ result.null) => res = source

\* C8 amended: when the call returns 0, the eager and the linear stage deleted
\* no rule, and the rule set the stages computed holds, unchanged and in
\* order, the source rules whose head may not be inlined and whose interpreted
\* tail has no quantifier; the other source rules are not in it.
C8_NullMeansNoStep ==
    (stage = "done" /\ result.null) =>
        /\ log.eager_deleted = 0
        /\ log.linear_deleted = 0
        /\ res = SelectSeq(source, LAMBDA r : ~inlining_allowed(st, get_decl(r)) /\ ~has_quantifier(r))

C8_Witness ==
    /\ stage = "done"
    /\ result.null
    /\ Len(res) >= 1
    /\ Len(res) < Len(source)
    /\ \E k \in DOMAIN source : has_quantifier(source[k]) /\ ~inlining_allowed(st, get_decl(source[k]))

\* what the call leaves in a converter handed in, own being the pass's converter
Left(given, own) ==
    IF stage = "done" /\ ~result.null /\ given.present
    THEN [present |-> TRUE, parts |-> <<"given", own.recs>>]
    ELSE Given(given.present)

\* C9: a converter handed in is replaced by its composition with the pass's
\* converter exactly when the call returns a rule set and the converter is
\* present; otherwise it is left as it was, an absent one absent.
C9_ConvertersComposed == mc = Left(mc, hsmc) /\ pc = Left(pc, hpc)

C9_Witness ==
    /\ stage = "done"
    /\ ~result.null
    /\ mc.present /\ ~pc.present
    /\ Len(hsmc.recs) >= 1

CountKind(recs, kind) == Cardinality({k \in DOMAIN recs : recs[k].kind = kind})

\* C10 as stated: the proof converter holds one resolve record for every
\* successful inlining step and one delete record for every rule eliminated
\* because its resolvent has an unsatisfiable interpreted tail.
C10_ProofRecords ==
    hpc.set =>
        /\ CountKind(hpc.recs, "resolve") = log.ok
        /\ CountKind(hpc.recs, "del") = log.eager_unsat

\* C10 amended: the proof converter, when there is one, holds resolve records
\* only, one for every successful inlining step and none for a failed one;
\* delete records go to the model converter, when there is one: one for every
\* rule do_eager_inlining deletes and one for every rule inline_linear invalidates.
C10_RecordsByConverter ==
    /\ Len(hpc.recs) = (IF hpc.set THEN log.ok ELSE 0)
    /\ \A k \in DOMAIN hpc.recs : hpc.recs[k].kind = "resolve"
    /\ Len(hsmc.recs) = (IF hsmc.set THEN log.eager_deleted + log.linear_deleted ELSE 0)
    /\ \A k \in DOMAIN hsmc.recs : hsmc.recs[k].kind = "del"

C10_Witness ==
    /\ stage = "done"
    /\ hpc.set /\ hsmc.set
    /\ log.ok >= 1
    /\ log.failed >= 1
    /\ log.eager_unsat >= 1

\* ------------------------------------------------------------------------
\* The scenarios
\* ------------------------------------------------------------------------
\* the source rule set made of the rules of program pr at the positions I
Scenario(pr, I) == WithOrg(Pick(pr.rules, I))

\* r and s are the same rule up to the names of the variables
SameRule(r, s) ==
    /\ norm_vars(r).head = norm_vars(s).head
    /\ norm_vars(r).pos = norm_vars(s).pos
    /\ norm_vars(r).neg = norm_vars(s).neg
    /\ norm_vars(r).interp = norm_vars(s).interp

\* the predicates in the heads and the uninterpreted tails of a rule list
Mentioned(rules) == UNION {{rules[k].head.pred} \cup PosPreds(rules[k]) \cup NegPreds(rules[k]) : k \in DOMAIN rules}

\* S1: P(x) :- Q(x).  Q(x) :- R(x).  Out(x) :- P(x).  Out declared output.
S1 == Scenario(ProgChain, 1..3)

RanS1 == stage = "done" /\ source = S1 /\ st.output = {Out}

ChainCollapsed ==
    /\ ~result.null
    /\ Len(result.rules) = 1
    /\ SameRule(result.rules[1], mk(At(Out, 0), <<At(R, 0)>>, <<>>, <<>>, 0))

\* C11 as stated: on S1 the call returns the single rule Out(x) :- R(x), and
\* P and Q occur in no head and no tail of the result.
C11_ChainEliminated ==
    RanS1 => (ChainCollapsed /\ Mentioned(result.rules) \cap {P, Q} = {})

\* C11 amended: on S1 the call returns the single rule Out(x) :- R(x) when the
\* relation of R is not empty, and a rule set without rules when it is empty
\* (R, without rules and facts, is then inlined away too); in both cases P
\* and Q occur in no head and no tail of the result.
C11_ChainEliminatedOverFacts ==
    RanS1 =>
        /\ R \in st.non_empty => ChainCollapsed
        /\ R \notin st.non_empty => (~result.null /\ result.rules = <<>>)
        /\ Mentioned(result.rules) \cap {P, Q} = {}

C11_Witness == RanS1 /\ R \in st.non_empty /\ Len(result.rules) = 1 /\ log.ok >= 2

\* S4: P(x) :- Q(x), x in {a}.  Q(x) :- x in {b}.  Out(x) :- P(x).
S4 == Scenario(ProgUnsat, 1..3)

RanS4 == stage = "done" /\ source = S4 /\ st.output = {Out}

\* some assignment of constants to the variables satisfies the constraints cs
Satisfiable(cs) ==
    \E v \in [InterpVars(cs) -> Consts] : \A k \in DOMAIN cs : cs[k].q \/ HoldsIn(cs[k], v)

\* the interpreted tail of the resolvent of tgt, at tail index i, with src
ResolvedInterp(u, tgt, src, i) ==
    remove_duplicate_tails(ApplyTail(u, tgt, TRUE, i).interp \o ApplyTail(u, src, FALSE, 0 - 1).interp)

\* tgt and src resolve at tail index i, into an unsatisfiable interpreted tail
ResolvesToUnsat(tgt, src, i) ==
    /\ ~has_quantifier(src)
    /\ unify_rules(norm_vars(tgt), i, src).ready
    /\ ~Satisfiable(ResolvedInterp(unify_rules(norm_vars(tgt), i, src), norm_vars(tgt), src, i))

\* the inlined rules of the first admissible positive tail predicate of r
CalleesOf(r) == get_predicate_rules(m_inlined_rules, r.pos[FirstAllowed(st, r) + 1].pred)

\* source rule k is headed by an output predicate, and each resolution of it
\* with a rule of its admissible tail predicate is unsatisfiable
UnsatPruned(k) ==
    /\ source[k].head.pred \in st.output
    /\ ~has_quantifier(source[k])
    /\ FirstAllowed(st, source[k]) < Len(source[k].pos)
    /\ Len(CalleesOf(source[k])) >= 1
    /\ \A j \in DOMAIN CalleesOf(source[k]) :
          ResolvesToUnsat(source[k], CalleesOf(source[k])[j], FirstAllowed(st, source[k]))

\* C12: an output rule all of whose resolutions with the rules of its
\* admissible tail predicate are unsatisfiable is deleted, and the call then
\* returns a rule set, with zero rules when no other rule remains, not the
\* "no change" result; on S4 the rule set returned has no rule.
C12_UnsatPruned ==
    /\ stage = "done" =>
          \A k \in DOMAIN source :
              UnsatPruned(k) =>
                  /\ ~result.null
                  /\ \A j \in DOMAIN result.rules : result.rules[j].org # k
                  /\ (\A j \in DOMAIN res : res[j].org = k) => result.rules = <<>>
    /\ RanS4 => (~result.null /\ result.rules = <<>> /\ log.unsat >= 1)

C12_Witness ==
    /\ stage = "done"
    /\ \E k \in DOMAIN source : UnsatPruned(k)
    /\ ~result.null
    /\ result.rules = <<>>
    /\ log.unsat >= 1

\* S5: P(x) :- Q(x).  R(x) :- not P(x).  Out(x) :- R(x).  Out declared output.
S5 == Scenario(ProgNegOnly, 1..3)

RanS5 == stage = "done" /\ source = S5 /\ st.output = {Out}

\* no rule of head p was the callee of a resolution step or removed as inlined
NotInlined(p) ==
    /\ \A c \in log.callees : c[2] # p
    /\ \A a \in log.absorbed : a[2] # p

S3 == Scenario(ProgMulti, 1..4)

\* the call on S3 has left forbid_multiple_multipliers
GuardedS3 == source = S3 /\ st.output = {Out} /\ stage \notin {"start", "cycles"}

\* C14 as stated: on S3, after the multiplier guard P is in forbidden_preds,
\* and its definitions are not expanded at its call sites.
C14_MultiplierForbidsP == GuardedS3 => (P \in st.forbidden_preds /\ NotInlined(P))

\* C14 amended: on S3 the planner does not forbid P: inlining_allowed(P) is
\* false by the counters (two defining rules, two occurrences), P is not in
\* the candidate set, and the guard adds nothing to forbidden_preds.  The
\* bulk stage expands no definition of P; when the relations of Q and R are
\* not empty no stage does, and the result has a rule with both calls of P.
C14_CountersBlockP ==
    GuardedS3 =>
        /\ st.forbidden_preds = {}
        /\ st.head_pred_ctr[P] = 2 /\ st.tail_pred_ctr[P] = 2
        /\ ~inlining_allowed(st, P)
        /\ <<"bulk", P>> \notin log.callees
        /\ \A a \in log.absorbed : a[2] # P
        /\ {Q, R} \subseteq st.non_empty =>
              /\ NotInlined(P)
              /\ stage = "done" =>
                    \E j \in DOMAIN Produced :
                        Cardinality({k \in DOMAIN Produced[j].pos : Produced[j].pos[k].pred = P}) = 2

C14_Witness ==
    /\ GuardedS3
    /\ {Q, R} \subseteq st.non_empty
    /\ stage = "done"
    /\ ~result.null
    /\ <<"bulk", S>> \in log.callees

\* S6: A(x) :- B(x).  B(x) :- C1(x).  B(x) :- C2(x).  Out(x) :- A(x), with P, Q,
\* R, S in the places of A, B, C1, C2.
S6 == Scenario(ProgBranch, 1..4)

\* inline_linear, handed S6, has returned
RanS6 == stage = "finish" /\ source = S6 /\ st.output = {Out}

\* C15 as stated: on S6 with inline-linear-branch false the rule of A is
\* neither rewritten nor consumed; with inline-linear-branch true it is
\* rewritten by resolving its tail B, and both rules of B stay valid.
C15_BranchToggle ==
    RanS6 =>
        IF lin.allow_branching
        THEN lin.acc[1] # source[1] /\ lin.valid[2] /\ lin.valid[3]
        ELSE lin.acc[1] = source[1] /\ lin.valid[1]

\* C15 amended: on S6, whatever inline-linear-branch is, the rule of A is not
\* rewritten (its tail B has two head unifiers) but consumed: it is the one
\* head unifier of the tail of Out(x) :- A(x) and its head has one tail
\* unifier, so it is inlined there and invalidated.  The rules of B stay as
\* they are, and the stage returns B(x) :- C1(x), B(x) :- C2(x), Out(x) :- B(x).
C15_BranchToggleIdle ==
    RanS6 =>
        /\ lin.acc[1] = source[1] /\ ~lin.valid[1]
        /\ lin.acc[2] = source[2] /\ lin.valid[2]
        /\ lin.acc[3] = source[3] /\ lin.valid[3]
        /\ SameRule(lin.acc[4], mk(At(Out, 0), <<At(Q, 0)>>, <<>>, <<>>, 0)) /\ lin.valid[4]
        /\ res = <<source[2], source[3], lin.acc[4]>>
        /\ log.callees = {<<"linear", P>>}

C15_Witness == RanS6 /\ lin.allow_branching /\ ~lin.valid[1] /\ lin.done_something

\* S2: A(x) :- B(x).  B(x) :- A(x).  Out(x) :- A(x), with P, Q in the places
\* of A, B.
S2 == Scenario(ProgCycle, 1..3)

OnS2 == source = S2 /\ st.output = {Out}

\* the rule set of the pass as it stands: what the stages have computed so
\* far, and what the host is left with when the call has returned
Standing ==
    IF stage = "done" THEN Produced
    ELSE IF stage = "linear" THEN ValidRules(lin.acc, lin.valid)
    ELSE IF stage \in {"params", "finish"} THEN res
    ELSE source

\* some predicate of the rules depends on itself through positive tails
Recursive(rules) == \E p \in RulePreds(rules) : p \in Reach(rules, p)

\* C16: on S2, planning forbids exactly one of the two predicates of the
\* cycle, and the rule set of the pass, after every stage and when the call
\* has returned, has a rule for Out and a recursive dependency.
C16_CycleKept ==
    OnS2 =>
        /\ stage \notin {"start", "cycles"} =>
              (st.forbidden_preds \subseteq {P, Q} /\ Cardinality(st.forbidden_preds) = 1)
        /\ \E j \in DOMAIN Standing : Standing[j].head.pred = Out
        /\ Recursive(Standing)

C16_Witness ==
    /\ OnS2
    /\ stage = "done"
    /\ ~result.null
    /\ st.forbidden_preds = {Q}
    /\ Len(result.rules) = 2

\* q is below h in the order of the orientation: by stratum, then by arity,
\* then by declaration id
Below(q, h, strats) ==
    \/ get_predicate_strat(strats, q) < get_predicate_strat(strats, h)
    \/ /\ get_predicate_strat(strats, q) = get_predicate_strat(strats, h)
       /\ get_arity(q) < get_arity(h)
    \/ /\ get_predicate_strat(strats, q) = get_predicate_strat(strats, h)
       /\ get_arity(q) = get_arity(h)
       /\ q < h

\* the eager inliner is about to replace its rule r by a resolvent
EagerStep == stage = "eager" /\ eager.i <= Len(res) /\ EagerCall.why = "inlined"

\* C17: the callee of every resolution step of the eager inliner is an
\* oriented rewriter: each of its positive tail predicates is below its head.
C17_EagerCalleeOriented ==
    EagerStep => \A q \in PosPreds(EagerCall.cand) : Below(q, get_decl(EagerCall.cand), eager.strats)

C17_Witness ==
    /\ EagerStep
    /\ \E q \in PosPreds(EagerCall.cand) :
          get_predicate_strat(eager.strats, q) = get_predicate_strat(eager.strats, get_decl(EagerCall.cand))

\* the rules of the rule set rules whose head unifies with tail atom ti of r
Resolvers(r, ti, rules) ==
    {k \in DOMAIN rules : /\ rules[k].head.pred = r.pos[ti].pred
                          /\ AtomsUnify(r.pos[ti], rules[k].head)}

\* the eager inliner still has work on tail atom ti of r in the rule set
\* rules: the atom is neither recursive nor over a predicate with facts, and
\* no rule unifies with it or exactly one rule does, an oriented rewriter
EagerWork(r, ti, rules, facts) ==
    /\ r.pos[ti].pred # get_decl(r)
    /\ r.pos[ti].pred \notin facts
    /\ \/ Resolvers(r, ti, rules) = {}
       \/ /\ Cardinality(Resolvers(r, ti, rules)) = 1
          /\ \A k \in Resolvers(r, ti, rules) :
                 \A q \in PosPreds(rules[k]) : Below(q, get_decl(rules[k]), get_strats(rules))

\* the eager stage has returned and its rule set is the one the linear
\* stage will read
EagerReturned == stage = "params"

\* a further scan of the eager stage over the rule set rules would change it
EagerScanChanges(rules, facts) ==
    \E k \in DOMAIN rules :
        do_eager_inlining(rules[k], rules, get_strats(rules), facts, FALSE, FALSE).ret

\* C18: the eager stage runs to a fixpoint: a further scan of the rule set
\* handed to the linear stage would change nothing, and no rule of it has a
\* positive tail atom the eager inliner would still act on.
C18_EagerFixpoint ==
    EagerReturned =>
        /\ ~EagerScanChanges(res, st.preds_with_facts)
        /\ \A k \in DOMAIN res : \A ti \in DOMAIN res[k].pos :
               ~EagerWork(res[k], ti, res, st.preds_with_facts)

\* the eager inliner is about to delete its rule r
EagerDeletes == stage = "eager" /\ eager.i <= Len(res) /\ EagerCall.ret /\ EagerCall.null

\* the eager inliner has chosen a candidate with a quantifier in its
\* interpreted tail
QuantifiedCandidate ==
    /\ stage = "eager" /\ eager.i <= Len(res)
    /\ EagerCall.cand # eager.r
    /\ has_quantifier(EagerCall.cand)

\* tail atom ti of the rule r of the eager inliner gives a reason to delete
\* r: no rule unifies with it, or the resolution with the chosen candidate
\* has an unsatisfiable interpreted tail
DeletionGround(ti) ==
    /\ eager.r.pos[ti].pred # get_decl(eager.r)
    /\ eager.r.pos[ti].pred \notin st.preds_with_facts
    /\ \/ Resolvers(eager.r, ti, res) = {}
       \/ /\ get_decl(EagerCall.cand) = eager.r.pos[ti].pred
          /\ ResolvesToUnsat(eager.r, EagerCall.cand, ti - 1)

BulkReturned == stage = "eager" /\ eager.i = 1 /\ eager.res = <<>>

\* source rule k has a quantifier in its interpreted tail
Quantified(k) == has_quantifier(source[k])

\* C20: the bulk stage preserves a rule with a quantifier in its interpreted
\* tail: when its head is not admissible it is, unchanged, in the output of
\* the bulk stage, and when its head is admissible it is, unchanged, among
\* the inlined rules that define its head.
C20_QuantifiedPreserved ==
    BulkReturned =>
        \A k \in DOMAIN source :
            Quantified(k) =>
                IF inlining_allowed(st, get_decl(source[k]))
                THEN \E j \in DOMAIN m_inlined_rules : SameRule(m_inlined_rules[j], source[k])
                ELSE \E j \in DOMAIN res : SameRule(res[j], source[k])

\* ------------------------------------------------------------------------
\* The stages: what each leaves behind
\* ------------------------------------------------------------------------
\* no positive tail atom of a rule of rules is over an admissible predicate
NoAdmissibleTail(rules) ==
    \A k \in DOMAIN rules : \A q \in PosPreds(rules[k]) : ~inlining_allowed(st, q)

\* plan_inlining is filling m_inlined_rules, or has filled it
Planning == stage \in {"fill", "transform"} \/ BulkReturned

\* transform_rules is filling res, or has filled it
Bulk == stage = "transform" \/ BulkReturned

\* C21: no admissible predicate remains: at every point of the planning no
\* rule of m_inlined_rules has a positive tail atom over an admissible
\* predicate, and no rule of the output of the bulk stage has one or has an
\* admissible head.
C21_NoAdmissibleLeft ==
    /\ Planning => NoAdmissibleTail(m_inlined_rules)
    /\ Bulk => /\ NoAdmissibleTail(res)
               /\ \A k \in DOMAIN res : ~inlining_allowed(st, get_decl(res[k]))

\* the bulk stage has returned rules into which it resolved rules that were
\* themselves resolved during the planning
C21_Witness ==
    /\ BulkReturned
    /\ Len(res) > 0
    /\ \E k \in DOMAIN m_inlined_rules : m_inlined_rules[k] \notin Range(source)
    /\ \E c \in log.callees : c[1] = "bulk"

\* the rules of the stratum plan_inlining is about to fill in
StratumRules == get_predicate_rules(candidate, CHOOSE p \in strata.comps[strata.i] : TRUE)

\* m_inlined_rules after transform_rule has run on the rules rs
InlinedAfter(rs) == TransformAll(NoWork(<<>>, m_inlined_rules), rs, 1, st, FALSE, TRUE).inlined

\* The calls of transform_rule the next step makes: the rule r0 handed over,
\* m_inlined_rules at the call (inlined), the rules m_inlined_rules can hold
\* before the call returns (seen), and whether the target is m_inlined_rules.
PlanCalls ==
    IF stage = "fill" /\ strata.i <= Len(strata.comps)
    THEN {[r0 |-> StratumRules[k],
           inlined |-> InlinedAfter(SubSeq(StratumRules, 1, k - 1)),
           seen |-> InlinedAfter(StratumRules),
           inPlace |-> TRUE] : k \in DOMAIN StratumRules}
    ELSE {}

BulkCalls ==
    IF stage = "transform" /\ loop <= Len(source) /\ ~inlining_allowed(st, get_decl(source[loop]))
    THEN {[r0 |-> source[loop], inlined |-> m_inlined_rules, seen |-> m_inlined_rules,
           inPlace |-> FALSE]}
    ELSE {}

TransformCalls == PlanCalls \cup BulkCalls

\* the number of positive tail positions of r over an admissible predicate
Inlinable(r) == Cardinality({i \in DOMAIN r.pos : inlining_allowed(st, r.pos[i].pred)})

\* the resolvents transform_rule pushes when it pops r while the rules seen
\* are those it can look up
PushedFor(r, seen) ==
    IF has_quantifier(r) \/ Inlinable(r) = 0 THEN {}
    ELSE {try_to_inline_rule(r, seen[k], FirstAllowed(st, r), FALSE).res :
            k \in {j \in DOMAIN seen :
                     /\ get_decl(seen[j]) = r.pos[FirstAllowed(st, r) + 1].pred
                     /\ try_to_inline_rule(r, seen[j], FirstAllowed(st, r), FALSE).ok}}

\* the rules popped within n rounds after the rules rs
RECURSIVE PoppedWithin(_, _, _)
PoppedWithin(rs, seen, n) ==
    IF n = 0 THEN rs
    ELSE PoppedWithin(rs \cup UNION {PushedFor(r, seen) : r \in rs}, seen, n - 1)

\* every resolution of the call c leaves fewer inlinable tail positions than
\* the rule resolved had, so that the worklist runs empty
Decreasing(c) ==
    \A r \in PoppedWithin({c.r0}, c.seen, Len(c.r0.pos)) :
        \A t \in PushedFor(r, c.seen) : Inlinable(t) < Inlinable(r)

\* the value the call c returns
Returns(c) == transform_rule(NoWork(<<>>, c.inlined), c.r0, st, FALSE, c.inPlace).modified

\* C22 as stated: transform_rule terminates, each resolution reducing the
\* number of inlinable tail positions, and it returns true exactly when a
\* rule it popped had a positive tail atom over an admissible predicate.
C22_TransformRule ==
    \A c \in TransformCalls :
        /\ Decreasing(c)
        /\ Returns(c) <=> \E r \in PoppedWithin({c.r0}, c.seen, Len(c.r0.pos)) : Inlinable(r) > 0

\* C22: transform_rule terminates, each resolution reducing the number of
\* inlinable tail positions, and it returns true exactly when a rule it
\* popped had no quantifier in its interpreted tail and had a positive tail
\* atom over an admissible predicate.
C22_TransformRuleUnquantified ==
    \A c \in TransformCalls :
        /\ Decreasing(c)
        /\ Returns(c) <=> \E r \in PoppedWithin({c.r0}, c.seen, Len(c.r0.pos)) :
                              ~has_quantifier(r) /\ Inlinable(r) > 0

\* a call in which a resolvent is resolved again, and which returns true
C22_Witness ==
    \E c \in TransformCalls :
        /\ \E t \in PushedFor(c.r0, c.seen) : PushedFor(t, c.seen) # {}
        /\ Returns(c)

\* the number of predicates below p in the order of the orientation
RankOf(p, strats) == Cardinality({q \in Preds : Below(q, p, strats)})

RECURSIVE Power(_, _)
Power(b, n) == IF n = 0 THEN 1 ELSE b * Power(b, n - 1)

\* one more than the longest positive tail of a rule of rules
Base(rules) == 1 + SetMax({0} \cup {Len(rules[k].pos) : k \in DOMAIN rules})

\* the weight of the positive tail of r: an atom weighs more than the whole
\* tail of a rule of rules over predicates below its own
Weight(r, rules, strats) ==
    SumOver([k \in DOMAIN r.pos |-> Power(Base(rules), RankOf(r.pos[k].pred, strats))], DOMAIN r.pos)

\* C23: the per-rule loop of the eager stage terminates, also on a rule set
\* with recursive strata: every replacement of r by a resolvent lowers the
\* weight of its positive tail, which is a natural number.
C23_EagerLoopTerminates ==
    [][(EagerStep /\ stage' = "eager" /\ eager'.i = eager.i)
        => Weight(eager'.r, res, eager.strats) < Weight(eager.r, res, eager.strats)]_vars

\* the loop has replaced r by a resolvent of lower weight and then found no
\* further step, in a rule set with a rule that calls its own head predicate
C23_Witness ==
    /\ stage = "eager" /\ eager.i <= Len(res)
    /\ ~EagerCall.ret
    /\ \E k \in DOMAIN res :
          /\ k = eager.i
          /\ Weight(eager.r, res, eager.strats) < Weight(res[k], res, eager.strats)
          /\ Len(eager.r.pos) > 0
    /\ \E k \in DOMAIN res : get_decl(res[k]) \in PosPreds(res[k])

\* do_eager_inlining is about to be called on the rule r of the scan
EagerCalled == stage = "eager" /\ eager.i <= Len(res)

\* the positive tail atoms of r the eager inliner looks at: tail indices, from 0
Eligible ==
    {ti \in 0..(Len(eager.r.pos) - 1) :
        /\ eager.r.pos[ti + 1].pred # get_decl(eager.r)
        /\ eager.r.pos[ti + 1].pred \notin st.preds_with_facts}

\* what do_eager_inlining does on r from tail index ti on
EagerOn(ti) == EagerFrom(eager.r, res, eager.strats, st.preds_with_facts, ti, hpc.set, hsmc.set)

\* the rules of the predicate of tail atom ti
RulesFor(ti) == {k \in DOMAIN res : get_decl(res[k]) = eager.r.pos[ti + 1].pred}

\* rule k of the rule set is an oriented rewriter
OrientedRule(k) == \A q \in PosPreds(res[k]) : Below(q, get_decl(res[k]), eager.strats)

\* rule k is the candidate handed to try_to_inline_rule for tail atom ti,
\* unless it is not oriented: then the atom is passed over
CandidateIs(ti, k) == IF OrientedRule(k) THEN EagerOn(ti).cand = res[k] ELSE EagerOn(ti) = EagerOn(ti + 1)

\* C24: the candidate for a tail atom the eager inliner looks at: without a
\* rule of its predicate r is deleted, with a record for the model converter
\* when there is one; the only rule of the predicate is the candidate; of
\* several rules the only one whose head unifies with the atom is the
\* candidate, and the atom is passed over when two or more unify.
C24_EagerCandidate ==
    EagerCalled =>
        \A ti \in Eligible :
            /\ RulesFor(ti) = {} =>
                  /\ EagerOn(ti).ret /\ EagerOn(ti).null
                  /\ EagerOn(ti).del = IF hsmc.set THEN <<DelRecord(eager.r)>> ELSE <<>>
            /\ Cardinality(RulesFor(ti)) = 1 => \A k \in RulesFor(ti) : CandidateIs(ti, k)
            /\ Cardinality(RulesFor(ti)) > 1 =>
                  /\ Cardinality(Resolvers(eager.r, ti + 1, res)) = 1 =>
                        \A k \in Resolvers(eager.r, ti + 1, res) : CandidateIs(ti, k)
                  /\ Cardinality(Resolvers(eager.r, ti + 1, res)) > 1 => EagerOn(ti) = EagerOn(ti + 1)

\* the eager inliner passes over a first tail atom with which two rules
\* unify and resolves r at a later one, the only unifying rule out of several
C24_Witness ==
    /\ EagerStep
    /\ \E ti \in Eligible :
          /\ Cardinality(Resolvers(eager.r, ti + 1, res)) > 1
          /\ \E tj \in Eligible :
                /\ tj > ti
                /\ Cardinality(RulesFor(tj)) > 1
                /\ Cardinality(Resolvers(eager.r, tj + 1, res)) = 1

\* count_pred_occurrences has returned
Counting == stage = "cycles"

\* the numbers of positive and of negated tail atoms over p in the source
PositiveIn(p) ==
    SumOver([k \in DOMAIN source |-> Cardinality({i \in DOMAIN source[k].pos : source[k].pos[i].pred = p})],
            DOMAIN source)

NegatedIn(p) ==
    SumOver([k \in DOMAIN source |-> Cardinality({i \in DOMAIN source[k].neg : source[k].neg[i].pred = p})],
            DOMAIN source)

\* C25 as stated: tail_pred_ctr counts the positive tail occurrences; a
\* negated occurrence only puts the predicate into preds_with_neg_occurrence.
C25_TailCountPositive ==
    Counting =>
        \A p \in Preds :
            /\ st.tail_pred_ctr[p] = PositiveIn(p)
            /\ p \in st.preds_with_neg_occurrence <=> NegatedIn(p) > 0

\* C25: tail_pred_ctr counts the uninterpreted tail occurrences, positive and
\* negated; a negated occurrence also puts the predicate into
\* preds_with_neg_occurrence, so that the counter is the number of positive
\* occurrences for every predicate outside that set.
C25_TailCountAll ==
    Counting =>
        \A p \in Preds :
            /\ st.tail_pred_ctr[p] = PositiveIn(p) + NegatedIn(p)
            /\ p \in st.preds_with_neg_occurrence <=> NegatedIn(p) > 0
            /\ p \notin st.preds_with_neg_occurrence => st.tail_pred_ctr[p] = PositiveIn(p)

\* the source counted has a predicate with positive and negated occurrences
C25_Witness ==
    /\ Counting
    /\ \E p \in Preds : PositiveIn(p) > 0 /\ NegatedIn(p) > 0 /\ st.tail_pred_ctr[p] > 1

\* plan_inlining has run forbid_multiple_multipliers
Guarded == stage \in {"fill", "transform"}

\* the positive tail positions of r over an admissible predicate with more
\* than one defining rule, by the planner state s
Multipliers(s, r) ==
    {i \in DOMAIN r.pos : inlining_allowed(s, r.pos[i].pred) /\ s.head_pred_ctr[r.pos[i].pred] > 1}

\* C26: after the planning no source rule has two or more positive tail atoms
\* over admissible predicates with more than one defining rule, the counts
\* being those the guard has updated.
C26_NoTwoMultipliers ==
    Guarded => \A k \in DOMAIN source : Cardinality(Multipliers(st, source[k])) <= 1

\* the guard was needed: by the counts of count_pred_occurrences a source
\* rule had two such tail atoms, and no cycle was broken
C26_Witness ==
    /\ Guarded
    /\ log.forbidden_by = <<>>
    /\ st.forbidden_preds # {}
    /\ \E k \in DOMAIN source :
          /\ Cardinality(Multipliers(count_pred_occurrences(NoPlan(st.output, st.non_empty), source),
                                     source[k])) >= 2
          /\ Cardinality(Multipliers(st, source[k])) = 1

\* ------------------------------------------------------------------------
\* The multiplier guard, phase by phase
\* ------------------------------------------------------------------------
\* plan_inlining is about to call forbid_multiple_multipliers
GuardCalled == stage = "cycles" /\ NonTrivial(get_strats(candidate)) = {}

\* the first loop of the guard, as the code runs it on the state
FirstLoop ==
    MultStrata([st |-> st, multi |-> FALSE, forbidden |-> FALSE, next |-> FALSE],
               candidate, get_strats(candidate), 1)

\* The first loop as a table of visits. v = [forb, hc, multi, over]: the
\* forbidden predicates, the head counts, whether p is multi-head, whether
\* the rest of the rules of p is skipped.
\* q is admissible with more than one defining rule, by v
IsMultiplier(v, q) ==
    /\ inlining_allowed([st EXCEPT !.forbidden_preds = v.forb, !.head_pred_ctr = v.hc], q)
    /\ v.hc[q] > 1

\* the positive tail predicates of the rules of p in the set to inline, in
\* the order of the rules and of their tails
RECURSIVE TailPredsFrom(_, _)
TailPredsFrom(rules, k) ==
    IF k > Len(rules) THEN <<>>
    ELSE [i \in DOMAIN rules[k].pos |-> rules[k].pos[i].pred] \o TailPredsFrom(rules, k + 1)

Visit(v, p, q) ==
    IF v.over \/ ~IsMultiplier(v, q) THEN v
    ELSE IF v.multi THEN [v EXCEPT !.forb = @ \cup {p}, !.over = TRUE]
    ELSE IF st.tail_pred_ctr[p] > 1 THEN [v EXCEPT !.forb = @ \cup {q}]
    ELSE [v EXCEPT !.multi = TRUE, !.hc[p] = v.hc[p] * v.hc[q]]

RECURSIVE VisitAll(_, _, _, _)
VisitAll(v, p, qs, k) ==
    IF k > Len(qs) THEN v ELSE VisitAll(Visit(v, p, qs[k]), p, qs, k + 1)

RECURSIVE VisitStrata(_, _, _)
VisitOne(v, p) ==
    VisitAll([v EXCEPT !.multi = v.hc[p] > 1, !.over = FALSE], p,
             TailPredsFrom(get_predicate_rules(candidate, p), 1), 1)

VisitStrata(v, comps, k) ==
    IF k > Len(comps) THEN v
    ELSE VisitStrata(VisitOne(v, CHOOSE p \in comps[k] : TRUE), comps, k + 1)

Visited ==
    VisitStrata([forb |-> st.forbidden_preds, hc |-> st.head_pred_ctr, multi |-> FALSE, over |-> FALSE],
                get_strats(candidate), 1)

\* what the whole guard returns
GuardReturn == forbid_multiple_multipliers(st, source, candidate)

\* C27: the first loop of the guard visits the predicates of the set to
\* inline in stratum order and, at each tail predicate q of a rule of p that
\* is admissible with more than one defining rule, forbids p and leaves its
\* rules when p is multi-head, else forbids q when p has more than one tail
\* occurrence, else makes p multi-head with the product of the two counts;
\* the guard returns true exactly when it has added a predicate.
C27_GuardFirstLoop ==
    GuardCalled =>
        /\ FirstLoop.st.forbidden_preds = Visited.forb
        /\ FirstLoop.st.head_pred_ctr = Visited.hc
        /\ GuardReturn.forbidden <=> GuardReturn.st.forbidden_preds # st.forbidden_preds

\* the first loop has made a predicate multi-head and then forbidden it
C27_Witness ==
    /\ GuardCalled
    /\ \E p \in FirstLoop.st.forbidden_preds \ st.forbidden_preds :
          FirstLoop.st.head_pred_ctr[p] > st.head_pred_ctr[p]
    /\ GuardReturn.forbidden

\* the predicates the second loop forbids at rule r, by the planner state s:
\* those of the tail atoms of r over admissible predicates with more than one
\* defining rule, but for the first of these atoms
LaterMultipliers(s, r) ==
    {r.pos[i].pred : i \in Multipliers(s, r) \ {SetMin(Multipliers(s, r) \cup {Len(r.pos) + 1})}}

\* the planner state after the rules of the source from ri on were examined
RECURSIVE Examined(_, _)
Examined(s, ri) ==
    IF ri > Len(source) THEN s
    ELSE IF inlining_allowed(s, get_decl(source[ri])) THEN Examined(s, ri + 1)
    ELSE Examined([s EXCEPT !.forbidden_preds = @ \cup LaterMultipliers(s, source[ri])], ri + 1)

\* C28: the second loop of the guard examines the source rules whose head is
\* not admissible, in order; in each it keeps the first tail predicate that
\* is admissible with more than one defining rule and forbids every later
\* one; rules with an admissible head are not examined.
C28_GuardSecondLoop ==
    GuardCalled => GuardReturn.st = Examined(FirstLoop.st, 1)

\* the second loop has kept the first and forbidden every later tail
\* predicate of a rule that had two or more after the first loop
C28_Witness ==
    /\ GuardCalled
    /\ \E k \in DOMAIN source :
          /\ ~inlining_allowed(FirstLoop.st, get_decl(source[k]))
          /\ Cardinality(Multipliers(FirstLoop.st, source[k])) >= 2
          /\ Cardinality(Multipliers(GuardReturn.st, source[k])) = 1
          /\ LaterMultipliers(FirstLoop.st, source[k]) \subseteq GuardReturn.st.forbidden_preds

\* ------------------------------------------------------------------------
\* The linear stage: positions and flags
\* ------------------------------------------------------------------------
\* the loop of inline_linear is at position lin.i
InLinear == stage = "linear" /\ lin.i <= Len(lin.acc)

\* the positions that hold a valid rule
ValidPositions == {k \in DOMAIN lin.acc : lin.valid[k]}

\* the first uninterpreted tail atom of the rule at position i
FirstTail(i) == (lin.acc[i].pos \o lin.acc[i].neg)[1]

\* the valid positions whose head unifies with the first tail atom of r_i
CalleesAt(i) == {j \in ValidPositions : AtomsUnify(FirstTail(i), lin.acc[j].head)}

\* the number of tail atoms, positive or negated, of the valid rules with
\* which the head of r_j unifies
CallersOf(j) ==
    SumOver([k \in ValidPositions |->
                Cardinality({n \in DOMAIN (lin.acc[k].pos \o lin.acc[k].neg) :
                                AtomsUnify(lin.acc[j].head, (lin.acc[k].pos \o lin.acc[k].neg)[n])})],
            ValidPositions)

\* position j may be marked invalid in a step at position i
MayInvalidate(i, j) ==
    /\ lin.valid[i] /\ lin.can_expand[i]
    /\ Len(lin.acc[i].pos \o lin.acc[i].neg) >= 1
    /\ CalleesAt(i) = {j}
    /\ i # j
    /\ lin.can_remove[j]
    /\ get_decl(lin.acc[j]) \notin st.output \cup st.preds_with_facts
    /\ lin.valid[j]
    /\ CallersOf(j) = 1
    /\ try_to_inline_rule(lin.acc[i], lin.acc[j], 0, FALSE).ok

\* the rules of acc at the positions of X, in position order
RECURSIVE RulesAt(_, _)
RulesAt(acc, X) ==
    IF X = {} THEN <<>> ELSE <<acc[SetMin(X)]>> \o RulesAt(acc, X \ {SetMin(X)})

\* C29: a position is marked invalid only in a step in which it is the only
\* head unifier of the first tail atom of r_i, is not i, can be removed, was
\* valid, has exactly one caller among the tail atoms of the rules, and the
\* resolution succeeded; an invalid position stays invalid; the rule set
\* returned holds the rules of the valid positions in position order.
C29_Invalidation ==
    [][/\ (InLinear /\ stage' = "linear") =>
            \A j \in DOMAIN lin.valid :
                /\ (lin.valid[j] /\ ~lin'.valid[j]) => MayInvalidate(lin.i, j)
                /\ ~lin.valid[j] => ~lin'.valid[j]
       /\ (stage = "linear" /\ stage' = "finish") => res' = RulesAt(lin.acc, ValidPositions)]_vars

\* the linear stage has returned after a step that marked a position
\* invalid and a step that did not
C29_Witness ==
    /\ stage = "finish"
    /\ lin.done_something
    /\ log.linear_deleted >= 1
    /\ Cardinality({c \in log.callees : c[1] = "linear"}) > log.linear_deleted
    /\ Len(res) < Len(lin.acc)

\* the driver is about to read the first tail atom of r_i
ReadsTail == InLinear /\ lin.valid[lin.i] /\ lin.can_expand[lin.i]

\* the rule has exactly one uninterpreted tail atom, positive, whose
\* predicate is neither an output predicate nor backed by facts
Expander(r) ==
    /\ Len(r.pos) + Len(r.neg) = 1
    /\ Len(r.neg) = 0
    /\ r.pos[1].pred \notin st.output
    /\ r.pos[1].pred \notin st.preds_with_facts

\* C30: whenever the driver reads r_i.tail[0] with can_expand[i] true, the
\* rule stored at position i has exactly one uninterpreted tail atom, which
\* is positive and whose predicate is neither output nor backed by facts,
\* also after can_expand[i] was overwritten with can_expand[j].
C30_ExpanderFlag == ReadsTail => Expander(lin.acc[lin.i])

\* the driver reads the tail of a resolvent whose flag was copied from r_j
C30_Witness ==
    /\ ReadsTail
    /\ lin.steps >= 2
    /\ lin.acc[lin.i] # res[lin.i]
    /\ Expander(lin.acc[lin.i])

====
